---- MODULE Spec2Model ----
(***************************************************************************)
(* financials-parser: the analyst wizard's correction state                *)
(* (useWizardState.ts, Step2Classify.tsx, Step3Finalize.tsx,               *)
(* SidePanel.tsx), the Layer 2 income-statement classification contract    *)
(* (the Layer 2 prompt) and the company-context merge contract (the merge  *)
(* prompt).                                                                *)
(*                                                                         *)
(* Money is counted in cents, so 3,621,577.27 is 362157727 and the 0.01    *)
(* tolerance is 1.  A JavaScript "number | null" is a tuple: <<>> is null  *)
(* and <<n>> is the number n.                                              *)
(***************************************************************************)
EXTENDS Integers, Sequences, FiniteSets, TLC

---------------------------------------------------------------------------
(* number | null *)

Null == <<>>

Num(n) == <<n>>

\* v ?? 0
NZ(v) == IF v = Null THEN 0 ELSE v[1]

Abs(x) == IF x < 0 THEN -x ELSE x

\* f[k] ?? null on a Record<string, number | null> whose key may be absent
Lookup(f, k) == IF k \in DOMAIN f THEN f[k] ELSE Null

---------------------------------------------------------------------------
(* Template fields (the part of the template the model follows) *)

TotalRevenue == "Total Revenue"

COGS == "COGS"

CogsDA == "COGS - Depreciation & Amortization"

GrossProfit == "Gross Profit"

SalesMarketing == "Sales & Marketing Expenses"

Administrative == "Administrative Expenses"

TotalOpEx == "Total Operating Expenses"

InterestExpense == "Interest Expense/(Income)"

IncomeBeforeTaxes == "Income (Loss) Before Taxes"

Taxes == "Taxes"

NetIncome == "Net Income (Loss)"

EBIT == "EBIT"

TotalAssets == "Total Assets"

TotalLE == "Total Liabilities and Equity"

TotalLiabilities == "Total Liabilities"

TotalEquity == "Total Equity"

IS_TEMPLATE_FIELDS ==
  {TotalRevenue, COGS, CogsDA, GrossProfit, SalesMarketing, Administrative,
   TotalOpEx, InterestExpense, IncomeBeforeTaxes, Taxes, NetIncome, EBIT}

BS_TEMPLATE_FIELDS == {TotalAssets, TotalLiabilities, TotalEquity, TotalLE}

---------------------------------------------------------------------------
(* Layer 2 classification of an income statement, as the prompt states it *)

\* The 0.01 of the wizard's balance check (Step3Finalize), in cents.
Tolerance == 1

\* Two figures for the same field disagree when they differ beyond tolerance.
Disagree(a, b) == Abs(a - b) > Tolerance

PathsDisagree(C) == \E a \in C, b \in C : Disagree(a, b)

\* Check 2: Gross Profit = Total Revenue - COGS - COGS D&A (a blank D&A
\* breakout counts as $0), next to the figure the source reports.
GrossProfitPaths(s) ==
  (IF s.tr # Null /\ s.cogs # Null
     THEN {s.tr[1] - s.cogs[1] - NZ(s.cogsda)} ELSE {})
  \cup (IF s.gp # Null THEN {s.gp[1]} ELSE {})

\* Check 8: Net Income = Income Before Taxes - Taxes, next to the source's.
NetIncomePaths(s) ==
  (IF s.ibt # Null /\ s.tax # Null THEN {s.ibt[1] - s.tax[1]} ELSE {})
  \cup (IF s.ni # Null THEN {s.ni[1]} ELSE {})

\* Checks 9 and 10: EBIT = Income Before Taxes + Interest, and
\* EBIT = Net Income + Taxes + Interest, on the populated values.
EbitPaths(ibt, ni, tax, int) ==
  (IF ibt # Null /\ int # Null THEN {ibt[1] + int[1]} ELSE {})
  \cup (IF ni # Null /\ tax # Null /\ int # Null
          THEN {ni[1] + tax[1] + int[1]} ELSE {})

\* Variant: a total with a blank component is blank.
SumBlankAsZero_Strict(components) ==
  IF \E k \in 1..Len(components) : components[k] = Null
    THEN Null
    ELSE Num(NZ(components[1]) + NZ(components[2]))

\* A total of components of which "many will be blank": a blank component
\* counts as 0, and the total is left blank when the source supports none
\* of its components.
SumBlankAsZero(components) ==
  IF \A k \in 1..Len(components) : components[k] = Null
    THEN Null
    ELSE Num(NZ(components[1]) + NZ(components[2]))

\* Check 4: Total Operating Expenses = Sales & Marketing + Administrative
\* + ... (the two components the model follows).
TotalOpExOf(s) == SumBlankAsZero(<<s.sm, s.adm>>)

\* "populate the value and append __FLAGGED": the prompt does not say which
\* of the figures is populated, so any of them may be.
Populated(C) == IF C = {} THEN {Null} ELSE {Num(c) : c \in C}

\* Variant: a difference within the tolerance is not flagged.
MultiPathFlagged_BeyondTolerance(C) == PathsDisagree(C)

\* "If multiple computation paths produce different results, or if a
\* computed value differs from the source document's reported value":
\* the field is flagged when its figures are not all the same.
MultiPathFlagged(C) == Cardinality(C) > 1

Layer2Result(s, gp, ni, ebit) ==
  [values |->
      (TotalRevenue :> s.tr) @@ (COGS :> s.cogs) @@ (CogsDA :> s.cogsda)
      @@ (GrossProfit :> gp) @@ (SalesMarketing :> s.sm)
      @@ (Administrative :> s.adm) @@ (TotalOpEx :> TotalOpExOf(s))
      @@ (InterestExpense :> s.int)
      @@ (IncomeBeforeTaxes :> s.ibt) @@ (Taxes :> s.tax)
      @@ (NetIncome :> ni) @@ (EBIT :> ebit),
   flaggedFields |->
      (IF MultiPathFlagged(GrossProfitPaths(s)) THEN {GrossProfit} ELSE {})
      \cup (IF MultiPathFlagged(NetIncomePaths(s)) THEN {NetIncome} ELSE {})
      \cup (IF MultiPathFlagged(EbitPaths(s.ibt, ni, s.tax, s.int))
              THEN {EBIT} ELSE {})]

\* The fields are populated along the dependency order: Gross Profit and
\* Net Income first, EBIT from the populated Net Income.
Layer2Outputs(s) ==
  UNION { UNION { { Layer2Result(s, gp, ni, ebit)
                      : ebit \in Populated(EbitPaths(s.ibt, ni, s.tax, s.int)) }
                  : ni \in Populated(NetIncomePaths(s)) }
          : gp \in Populated(GrossProfitPaths(s)) }

---------------------------------------------------------------------------
(* State *)

VARIABLES
  layer2Results,  \* WizardState.layer2Results: statement type -> Layer2Result
  corrections,    \* WizardState.corrections: Correction[]
  now,            \* the clock new Date() reads
  version,        \* updates applied to corrections so far (kept for the
                  \* stale-submission claim; the program stores no version)
  lastOp,         \* the handler that ran last, with its argument
  ruleStore,      \* the company's context file: the persisted rule store
  mergeOut,       \* the merge call's last output: action, updated_markdown
  lastInstr,      \* the instruction of the last merge call
  source,         \* what the income statement under classification reports
  layer2Out,      \* the Layer 2 output for source, Null before the pass
  pair,           \* a margin/dollar pair of the source with its base
  induced,        \* the pair as Layer 2 populates it, Null before the pass
  formulas,       \* the formula graph handed to the loader
  loaded,         \* the loader's answer, Null before the load
  currentStep,    \* WizardState.currentStep
  sheetNames,     \* WizardState.sheetNames: the workbook's sheets, in order
  activeSheetTab, \* WizardState.activeSheetTab
  layer1Results,  \* WizardState.layer1Results: sheet name -> Layer1Result
  tabStates,      \* Step 1 tabStates: sheet name -> TabState
  extractions,    \* runLayer1 calls in flight: sheet name -> the
                  \* layer1Results the calling handler closed over
  status,         \* the status banner of the step on screen
  isStatus,       \* Step 2 isStatus
  bsStatus,       \* Step 2 bsStatus
  isError,        \* Step 2 isError
  bsError,        \* Step 2 bsError
  classifyingRef, \* Step 2 classifyingRef.current
  run,            \* the runClassification call in progress: the
                  \* layer2Results it closed over, its newResults and the
                  \* statements whose runLayer2 call is in flight
  failures,       \* the sheets and statements whose call has failed so far
  approvingStep2, \* Step 2 approvingStep2
  calls,          \* saveCorrection and processCorrections calls in flight
  server,         \* what the backend holds: the corrections it has logged
                  \* and the corrections its rule store has absorbed
  reasoningError, \* SidePanel reasoningError
  saving,         \* Step 3 saving
  finalized,      \* Step 3 finalized
  step1Approved,  \* WizardState.step1Approved
  step2Approved,  \* WizardState.step2Approved
  selectedCell,   \* WizardState.selectedCell
  sidePanelOpen,  \* WizardState.sidePanelOpen
  session,        \* WizardState.companyName, companyId, reportingPeriod,
                  \* sessionId, uploadedFile and workbookUrl
  updateQueue,    \* setState updaters React has queued and not yet applied
  submitted       \* the addCorrection / removeCorrection calls made so far

wizardVars == <<layer2Results, corrections, now, version, lastOp>>

mergeVars == <<ruleStore, mergeOut, lastInstr>>

deriveVars == <<source, layer2Out>>

induceVars == <<pair, induced>>

graphVars == <<formulas, loaded>>

stepVars == <<currentStep, sheetNames, activeSheetTab, layer1Results,
              tabStates, extractions, status, isStatus, bsStatus, isError,
              bsError, classifyingRef, run, failures>>

reviewVars == <<approvingStep2, calls, server, reasoningError, saving,
                finalized>>

queueVars == <<updateQueue, submitted>>

flowVars == <<step1Approved, step2Approved, selectedCell, sidePanelOpen,
              session>>

\* What the handlers of one part leave alone: the variables of the others.
restOfWizard == <<mergeVars, deriveVars, induceVars, graphVars,
   stepVars, reviewVars, queueVars, flowVars>>

restOfMerge == <<wizardVars, deriveVars, induceVars, graphVars,
   stepVars, reviewVars, queueVars, flowVars>>

restOfDerive == <<wizardVars, mergeVars, induceVars, graphVars,
   stepVars, reviewVars, queueVars, flowVars>>

restOfInduce == <<wizardVars, mergeVars, deriveVars, graphVars,
   stepVars, reviewVars, queueVars, flowVars>>

restOfGraph == <<wizardVars, mergeVars, deriveVars, induceVars,
   stepVars, reviewVars, queueVars, flowVars>>

vars == <<layer2Results, corrections, now, version, lastOp,
          ruleStore, mergeOut, lastInstr, source, layer2Out, pair, induced,
          formulas, loaded, currentStep, sheetNames, activeSheetTab,
          layer1Results, tabStates, extractions, status, isStatus, bsStatus,
          isError, bsError, classifyingRef, run, failures, approvingStep2,
          calls, server, reasoningError, saving, finalized, updateQueue,
          submitted, step1Approved, step2Approved, selectedCell,
          sidePanelOpen, session>>

---------------------------------------------------------------------------
(* Bounds of the wizard model *)

\* The clock runs from 0 to MaxClock.
MaxClock == 1

\* The update count is followed up to MaxVersion and stays there.
MaxVersion == 2

\* The template rows the analyst edits.
EditFields == {COGS, GrossProfit, TotalAssets}

\* The corrected values the analyst types.
CorrValues == {1, 4}

TagInputs == {"company_specific"}

ReasoningInputs == {"r"}

\* The income statements the wizard is opened on: one whose reported Gross
\* Profit agrees with Total Revenue - COGS, one whose reported figure does
\* not, one that reports no Gross Profit.
WizardSources ==
  [tr : {Num(5)}, cogs : {Num(2)}, cogsda : {Null},
   gp : {Num(3), Num(6), Null}, sm : {Null}, adm : {Null},
   int : {Null}, ibt : {Null}, tax : {Null}, ni : {Null}]

\* The balance-sheet results the wizard is opened on.
WizardBalanceSheets ==
  { [values |-> (TotalAssets :> Num(7)) @@ (TotalLE :> Num(7)),
     flaggedFields |-> {}],
    [values |-> (TotalAssets :> Null), flaggedFields |-> {TotalAssets}] }

---------------------------------------------------------------------------
(* useWizardState.ts: the corrections list *)

\* s.corrections.findIndex((c) => c.fieldName === fieldName), 0 for -1
FindIndex(corrs, fieldName) ==
  IF \E i \in 1..Len(corrs) : corrs[i].fieldName = fieldName
    THEN CHOOSE i \in 1..Len(corrs) :
           /\ corrs[i].fieldName = fieldName
           /\ \A j \in 1..(i - 1) : corrs[j].fieldName # fieldName
    ELSE 0

\* addCorrection without the replace branch
addCorrection_AlwaysAppend(corrs, correction) == Append(corrs, correction)

\* addCorrection that leaves a field's earlier correction in place
addCorrection_KeepExisting(corrs, correction) ==
  IF FindIndex(corrs, correction.fieldName) >= 1
    THEN corrs
    ELSE Append(corrs, correction)

addCorrection(corrs, correction) ==
  LET existing == FindIndex(corrs, correction.fieldName)
  IN IF existing >= 1
       THEN [corrs EXCEPT ![existing] = correction]
       ELSE Append(corrs, correction)

\* removeCorrection with the filter's test inverted
removeCorrection_KeepOnly(corrs, fieldName) ==
  SelectSeq(corrs, LAMBDA c : c.fieldName = fieldName)

removeCorrection(corrs, fieldName) ==
  SelectSeq(corrs, LAMBDA c : c.fieldName # fieldName)

---------------------------------------------------------------------------
(* Step3Finalize.tsx and Step2Classify.tsx: the values shown and sent *)

\* isLayer2?.values ?? {}
ValuesOf(l2, stmt) == IF stmt \in DOMAIN l2 THEN l2[stmt].values ELSE << >>

FlaggedOf(l2, stmt) ==
  IF stmt \in DOMAIN l2 THEN l2[stmt].flaggedFields ELSE {}

\* values[fieldName] = correctedValue, adding the key when it is absent
SetKey(values, k, v) ==
  [x \in DOMAIN values \cup {k} |-> IF x = k THEN v ELSE values[x]]

RECURSIVE ApplyCorrections(_, _, _)
\* for (const correction of corrections) { ... } from the i-th on
ApplyCorrections(fv, corrs, i) ==
  IF i > Len(corrs) THEN fv
  ELSE LET c == corrs[i]
           next == IF c.fieldName \in IS_TEMPLATE_FIELDS
                     THEN [fv EXCEPT !.income_statement =
                             SetKey(@, c.fieldName, Num(c.correctedValue))]
                     ELSE [fv EXCEPT !.balance_sheet =
                             SetKey(@, c.fieldName, Num(c.correctedValue))]
       IN ApplyCorrections(next, corrs, i + 1)

buildFinalValues(l2, corrs) ==
  ApplyCorrections([income_statement |-> ValuesOf(l2, "income_statement"),
                    balance_sheet |-> ValuesOf(l2, "balance_sheet")],
                   corrs, 1)

StatementOf(field) ==
  IF field \in IS_TEMPLATE_FIELDS THEN "income_statement" ELSE "balance_sheet"

\* Step 3 buildRows: rawValue = finalValues[statement][field] ?? null
FinalValue(l2, corrs, field) ==
  Lookup(buildFinalValues(l2, corrs)[StatementOf(field)], field)

\* Step 2 buildTemplateRows: the correction's value when the field has one,
\* else the Layer 2 value, else null
Step2Value(l2, corrs, field) ==
  LET i == FindIndex(corrs, field)
  IN IF i >= 1 THEN Num(corrs[i].correctedValue)
     ELSE Lookup(ValuesOf(l2, StatementOf(field)), field)

\* SidePanel currentValue: layer2Result.values[fieldName] ?? null
CurrentValue(l2, field) == Lookup(ValuesOf(l2, StatementOf(field)), field)

---------------------------------------------------------------------------
(* The analyst's handlers *)

\* What a save does to the list: "resave" hands in a correction the list
\* already holds, "replace" one for a field that has another correction,
\* "save" one for a field that has none.
SaveKind(corrs, correction) ==
  IF \E i \in 1..Len(corrs) : corrs[i] = correction THEN "resave"
  ELSE IF FindIndex(corrs, correction.fieldName) >= 1 THEN "replace"
  ELSE "save"

SaveOps == {"save", "replace", "resave"}

\* SidePanel handleSave, then Step 2 handleSaveCorrection: the correction
\* is stamped with the time of the save and handed to addCorrection.  base
\* is the update count the analyst's form was prepared against; a
\* Correction has no field for it and nothing reads it.
HandleSaveCorrection(field, value, reasoning, tag, ts, base) ==
  /\ reasoning # ""
  /\ ts >= now
  /\ base <= version
  /\ LET correction == [fieldName |-> field,
                        originalValue |-> NZ(CurrentValue(layer2Results, field)),
                        correctedValue |-> value,
                        reasoning |-> reasoning,
                        tag |-> tag,
                        timestamp |-> ts]
     IN /\ corrections' = addCorrection(corrections, correction)
        /\ lastOp' = [op |-> SaveKind(corrections, correction),
                      correction |-> correction,
                      stale |-> base < version]
  /\ now' = ts
  /\ version' = IF version < MaxVersion THEN version + 1 ELSE version
  /\ UNCHANGED <<layer2Results, restOfWizard>>

\* Step 2 handleRemoveCorrection; the button is shown for a field that has
\* a correction.
HandleRemoveCorrection(field) ==
  /\ FindIndex(corrections, field) >= 1
  /\ corrections' = removeCorrection(corrections, field)
  /\ lastOp' = [op |-> "remove", field |-> field]
  /\ version' = IF version < MaxVersion THEN version + 1 ELSE version
  /\ UNCHANGED <<layer2Results, now, restOfWizard>>

\* The context file before any instruction has been added: no section.
EmptyStore == [sections |-> << >>]

IdleMerge ==
  /\ ruleStore = EmptyStore
  /\ mergeOut = [action |-> "NONE", updated_markdown |-> Null]
  /\ lastInstr = Null

IdleDerive ==
  /\ source = Null
  /\ layer2Out = Null

IdleInduce ==
  /\ pair = Null
  /\ induced = Null

IdleGraph ==
  /\ formulas = Null
  /\ loaded = Null

\* useWizardState defaultState and the step components' initial state
IdleSteps ==
  /\ currentStep = 1
  /\ sheetNames = << >>
  /\ activeSheetTab = ""
  /\ layer1Results = << >>
  /\ tabStates = << >>
  /\ extractions = << >>
  /\ status = Null
  /\ isStatus = "idle"
  /\ bsStatus = "idle"
  /\ isError = Null
  /\ bsError = Null
  /\ classifyingRef = FALSE
  /\ run = Null
  /\ failures = {}

\* defaultState: no company, period, session, file or workbook
DefaultSession ==
  [companyName |-> "", companyId |-> << >>, reportingPeriod |-> "",
   sessionId |-> << >>, uploadedFile |-> << >>, workbookUrl |-> << >>]

\* The form of Step 1 filled in: a company selected, a period entered.
FormSession ==
  [DefaultSession EXCEPT !.companyName = "Acme Portfolio Co.",
                         !.companyId = <<1>>,
                         !.reportingPeriod = "03/31/2024"]

\* After an upload that succeeded.
UploadedSession ==
  [FormSession EXCEPT !.sessionId = <<"session-1">>,
                      !.uploadedFile = <<"workbook.xlsx">>,
                      !.workbookUrl = <<"/workbooks/session-1">>]

IdleFlow ==
  /\ step1Approved = FALSE
  /\ step2Approved = FALSE
  /\ selectedCell = << >>
  /\ sidePanelOpen = FALSE
  /\ session = DefaultSession

IdleReview ==
  /\ approvingStep2 = FALSE
  /\ calls = {}
  /\ server = [corrections |-> {}, processed |-> {}, finalized |-> {}]
  /\ reasoningError = FALSE
  /\ saving = FALSE
  /\ finalized = FALSE

IdleQueue ==
  /\ updateQueue = << >>
  /\ submitted = << >>

Init ==
  /\ \E s \in WizardSources, bs \in WizardBalanceSheets :
       \E is \in Layer2Outputs(s) :
         layer2Results = [income_statement |-> is, balance_sheet |-> bs]
  /\ corrections = << >>
  /\ now = 0
  /\ version = 0
  /\ lastOp = [op |-> "none"]
  /\ IdleMerge
  /\ IdleDerive
  /\ IdleInduce
  /\ IdleGraph
  /\ IdleSteps
  /\ IdleReview
  /\ IdleQueue
  /\ IdleFlow

Next ==
  \/ \E field \in EditFields, value \in CorrValues, reasoning \in ReasoningInputs,
        tag \in TagInputs, ts \in 0..MaxClock, base \in 0..MaxVersion :
       HandleSaveCorrection(field, value, reasoning, tag, ts, base)
  \/ \E field \in EditFields : HandleRemoveCorrection(field)

Spec == Init /\ [][Next]_vars

---------------------------------------------------------------------------
(* Claims about the wizard's corrections *)

\* The vertical checks of the Layer 2 prompt, as formulas over a values map:
\* check 2 (Gross Profit), check 8 (Net Income), check 9 (EBIT).  Null when
\* an operand is missing.
DerivedFields == {GrossProfit, NetIncome, EBIT}

Formula(field, values) ==
  LET v(k) == Lookup(values, k)
  IN CASE field = GrossProfit ->
            IF v(TotalRevenue) # Null /\ v(COGS) # Null
              THEN Num(v(TotalRevenue)[1] - v(COGS)[1] - NZ(v(CogsDA)))
              ELSE Null
       [] field = NetIncome ->
            IF v(IncomeBeforeTaxes) # Null /\ v(Taxes) # Null
              THEN Num(v(IncomeBeforeTaxes)[1] - v(Taxes)[1])
              ELSE Null
       [] field = EBIT ->
            IF v(IncomeBeforeTaxes) # Null /\ v(InterestExpense) # Null
              THEN Num(v(IncomeBeforeTaxes)[1] + v(InterestExpense)[1])
              ELSE Null

\* The corrections the analyst can hand in on the current snapshot.
CorrectionInputs ==
  { [fieldName |-> field,
     originalValue |-> NZ(CurrentValue(layer2Results, field)),
     correctedValue |-> value, reasoning |-> reasoning, tag |-> tag,
     timestamp |-> ts]
    : field \in EditFields, value \in CorrValues,
      reasoning \in ReasoningInputs, tag \in TagInputs, ts \in 0..MaxClock }

\* C1 (as claimed): in every snapshot, corrections applied, each derived
\* field of the final values that has a value and was not itself corrected
\* equals its formula on the current values of its dependencies within
\* tolerance, or is flagged.
C1_DerivedFieldsConsistent ==
  LET final == buildFinalValues(layer2Results, corrections).income_statement
  IN \A f \in DerivedFields :
       (/\ FindIndex(corrections, f) = 0
        /\ Lookup(final, f) # Null
        /\ Formula(f, final) # Null)
         => \/ ~Disagree(Lookup(final, f)[1], Formula(f, final)[1])
            \/ f \in FlaggedOf(layer2Results, "income_statement")

\* C2: applying a correction to a snapshot that already had it applied
\* changes nothing: the corrections list, the Step 2 values and the final
\* values are those after the first application.
C2_ApplyCorrectionIdempotent ==
  \A c \in CorrectionInputs :
    LET once == addCorrection(corrections, c)
        twice == addCorrection(once, c)
    IN /\ twice = once
       /\ buildFinalValues(layer2Results, twice)
            = buildFinalValues(layer2Results, once)
       /\ \A f \in EditFields :
            Step2Value(layer2Results, twice, f)
              = Step2Value(layer2Results, once, f)

\* A correction the list already held has been saved again.
C2_Witness ==
  /\ lastOp.op = "resave"
  /\ \E i \in 1..Len(corrections) : corrections[i] = lastOp.correction

\* C3: the list holds at most one correction per field, and after a save
\* the field's one entry is the correction just saved.
C3_OneCorrectionPerField ==
  /\ \A i \in 1..Len(corrections), j \in 1..Len(corrections) :
       corrections[i].fieldName = corrections[j].fieldName => i = j
  /\ lastOp.op \in SaveOps =>
       \E i \in 1..Len(corrections) : corrections[i] = lastOp.correction

\* A field's earlier correction has been replaced by a later one, next to a
\* correction of another field.
C3_Witness ==
  /\ lastOp.op = "replace"
  /\ Len(corrections) = 2
  /\ \E i \in 1..2 : corrections[i] = lastOp.correction

\* C4: a step that removes the correction of a field leaves that field, in
\* Step 2 and in the final values, at the value the classification pass
\* gave it, and leaves the corrections of the other fields as they were.
C4_RemoveReverts ==
  [][lastOp'.op = "remove" =>
       LET f == lastOp'.field
       IN /\ Step2Value(layer2Results', corrections', f)
               = CurrentValue(layer2Results', f)
          /\ FinalValue(layer2Results', corrections', f)
               = CurrentValue(layer2Results', f)
          /\ SelectSeq(corrections', LAMBDA c : c.fieldName # f)
               = SelectSeq(corrections, LAMBDA c : c.fieldName # f)
          /\ FindIndex(corrections', f) = 0]_vars

\* A correction has been removed while another field keeps its own.
C4_Witness ==
  /\ lastOp.op = "remove"
  /\ Len(corrections) >= 1
  /\ Step2Value(layer2Results, corrections, lastOp.field)
       = CurrentValue(layer2Results, lastOp.field)

---------------------------------------------------------------------------
(* The company context file and the merge of one instruction into it, as   *)
(* the merge prompt states them.  A rule (a bullet) is the company's source *)
(* label with the guidance given for it: a set of clauses, each a condition *)
(* and the template field the item goes to under it.  An instruction is one *)
(* clause for one label, with the field the item was wrongly routed to.     *)
(* A nullable document is a tuple: <<>> is null, <<doc>> the document.      *)

\* The template sections, in the order of the file.
SectionOrder ==
  <<"Revenue", "Cost of Goods Sold", "Operating Expenses", "Below the Line",
    "EBITDA", "Current Assets", "Non-Current Assets", "Current Liabilities",
    "Non-Current Liabilities", "Equity">>

SectionIndex(name) == CHOOSE k \in 1..Len(SectionOrder) : SectionOrder[k] = name

\* The section each template field is listed under.
SectionOfField(field) ==
  CASE field \in {"Sales & Marketing Expenses", "Administrative Expenses",
                  "Other Operating Expenses"} -> "Operating Expenses"
    [] field \in {"Interest Expense/(Income)", "Other Income"} -> "Below the Line"
    [] field \in {"Short Term Loans", "Other Current Liabilities"} -> "Current Liabilities"
    [] field \in {"Deferred Liabilities"} -> "Non-Current Liabilities"

\* The instructions handed to the merge: the prompt's three examples (the
\* combined 'SGA Expenses' line, its sub-line split, 'Deferred Revenue') and
\* two about a combined 'Other Income & Expense' line.
InstructionInputs ==
  { [label |-> "SGA Expenses", cond |-> "always",
     dest |-> "Administrative Expenses", from |-> "Sales & Marketing Expenses"],
    [label |-> "SGA Expenses", cond |-> "sub-line present",
     dest |-> "Sales & Marketing Expenses", from |-> "Administrative Expenses"],
    [label |-> "Deferred Revenue", cond |-> "always",
     dest |-> "Other Current Liabilities", from |-> "Deferred Liabilities"],
    [label |-> "Other Income & Expense", cond |-> "always",
     dest |-> "Other Operating Expenses", from |-> "Other Income"],
    [label |-> "Other Income & Expense", cond |-> "below the line in source",
     dest |-> "Other Income", from |-> "Other Operating Expenses"] }

Clause(instr) == [cond |-> instr.cond, dest |-> instr.dest]

\* The rules of the file, each with the section it stands in.
RulesIn(store) ==
  { [section |-> store.sections[k].name, rule |-> store.sections[k].rules[n]]
    : <<k, n>> \in { <<k2, n2>> \in (1..Len(store.sections)) \X (1..5) :
                       n2 <= Len(store.sections[k2].rules) } }

\* Variant: redundant only when the rule's text is exactly the instruction.
Covers_ExactText(rule, instr) ==
  /\ rule.label = instr.label
  /\ rule.guidance = {[cond |-> instr.cond, dest |-> instr.dest]}

\* "a rule that covers the exact same scenario with the same guidance"
Covers(rule, instr) ==
  /\ rule.label = instr.label
  /\ Clause(instr) \in rule.guidance

\* "about the same source line item or the same classification decision"
Overlaps(rule, instr) == rule.label = instr.label

Decide(store, instr) ==
  IF \E e \in RulesIn(store) : Covers(e.rule, instr) THEN "DISCARD"
  ELSE IF \E e \in RulesIn(store) : Overlaps(e.rule, instr) THEN "AMEND"
  ELSE "APPEND"

\* Variant: the section of the field the item was routed away from.
TargetSection_From(instr) == SectionOfField(instr.from)

\* "place it in the section of the correct destination field"
TargetSection(instr) == SectionOfField(instr.dest)

\* Variant: the amended rule keeps only the new guidance.
AmendRule_Replace(rule, instr) ==
  [rule EXCEPT !.guidance = {[cond |-> instr.cond, dest |-> instr.dest]}]

\* AMEND: the overlapping rule is rewritten in place to a superset.
AmendRule(rule, instr) ==
  [rule EXCEPT !.guidance = @ \cup {Clause(instr)}]

Amend(store, instr) ==
  [sections |->
     [k \in 1..Len(store.sections) |->
        [store.sections[k] EXCEPT !.rules =
           [n \in 1..Len(@) |->
              IF Overlaps(@[n], instr) THEN AmendRule(@[n], instr) ELSE @[n]]]]]

NewRule(instr) == [label |-> instr.label, guidance |-> {Clause(instr)}]

\* APPEND: a new bullet at the end of the target section; the section is
\* created, at its place in the order of the file, when it does not exist.
AppendRule(store, instr) ==
  LET target == TargetSection(instr)
      secs == store.sections
  IN IF \E k \in 1..Len(secs) : secs[k].name = target
       THEN [sections |->
               [k \in 1..Len(secs) |->
                  IF secs[k].name = target
                    THEN [secs[k] EXCEPT !.rules = Append(@, NewRule(instr))]
                    ELSE secs[k]]]
       ELSE LET before == SelectSeq(secs, LAMBDA s :
                            SectionIndex(s.name) < SectionIndex(target))
                after == SelectSeq(secs, LAMBDA s :
                            SectionIndex(s.name) > SectionIndex(target))
            IN [sections |->
                  before \o <<[name |-> target, rules |-> <<NewRule(instr)>>]>>
                         \o after]

\* Variant: the output holds only the section that was changed.
Merge_OnlyChangedSection(store, instr) ==
  LET action == Decide(store, instr)
      full == IF action = "AMEND" THEN Amend(store, instr)
              ELSE AppendRule(store, instr)
      changed == SelectSeq(full.sections, LAMBDA s :
                   \E n \in 1..Len(s.rules) : s.rules[n].label = instr.label)
  IN [action |-> action,
      updated_markdown |->
        IF action = "DISCARD" THEN Null ELSE <<[sections |-> changed]>>]

\* The JSON the merge returns: updated_markdown is null for DISCARD and the
\* complete file for AMEND and APPEND.
Merge(store, instr) ==
  LET action == Decide(store, instr)
  IN [action |-> action,
      updated_markdown |->
        CASE action = "DISCARD" -> Null
          [] action = "AMEND" -> <<Amend(store, instr)>>
          [] action = "APPEND" -> <<AppendRule(store, instr)>>]

\* "The output will directly overwrite the existing file"; nothing is
\* written for DISCARD ("No changes needed").
Persist(store, out) ==
  IF out.action = "DISCARD" THEN store ELSE out.updated_markdown[1]

\* One merge call and the write of its output.  lastInstr keeps the
\* instruction and whether it is the one the previous call was given.
MergeInstruction(instr) ==
  /\ mergeOut' = Merge(ruleStore, instr)
  /\ ruleStore' = Persist(ruleStore, mergeOut')
  /\ lastInstr' = <<[instr |-> instr,
                     repeated |-> lastInstr # Null /\ lastInstr[1].instr = instr]>>
  /\ UNCHANGED restOfMerge

IdleWizard ==
  /\ layer2Results = << >>
  /\ corrections = << >>
  /\ now = 0
  /\ version = 0
  /\ lastOp = [op |-> "none"]

MergeInit ==
  /\ IdleMerge
  /\ IdleWizard
  /\ IdleDerive
  /\ IdleInduce
  /\ IdleGraph
  /\ IdleSteps
  /\ IdleReview
  /\ IdleQueue
  /\ IdleFlow

MergeNext == \E instr \in InstructionInputs : MergeInstruction(instr)

MergeSpec == MergeInit /\ [][MergeNext]_vars

---------------------------------------------------------------------------
(* Claims about the merge.                                                  *)

MergeTwice(store, instr) ==
  Persist(Persist(store, Merge(store, instr)),
          Merge(Persist(store, Merge(store, instr)), instr))

\* The rules of one section of the file; none when the section is absent.
RulesOfSection(store, name) ==
  IF \E k \in 1..Len(store.sections) : store.sections[k].name = name
    THEN store.sections[CHOOSE k \in 1..Len(store.sections) :
                          store.sections[k].name = name].rules
    ELSE << >>

SectionNames(store) == {store.sections[k].name : k \in 1..Len(store.sections)}

\* C6: Merge is idempotent.  For every file the merges can produce and
\* every instruction, merging the instruction a second time into the file
\* produced by the first merge is decided DISCARD and leaves the file as the
\* first merge left it; a call repeating the previous call's instruction
\* was decided DISCARD.
C6_MergeIdempotent ==
  /\ \A instr \in InstructionInputs :
       LET once == Persist(ruleStore, Merge(ruleStore, instr))
       IN /\ Decide(once, instr) = "DISCARD"
          /\ Merge(once, instr).updated_markdown = Null
          /\ MergeTwice(ruleStore, instr) = once
  /\ (lastInstr # Null /\ lastInstr[1].repeated) => mergeOut.action = "DISCARD"

\* The same instruction was merged twice in a row into a file that holds an
\* amended rule, and the second merge was discarded.
C6_Witness ==
  /\ lastInstr # Null
  /\ lastInstr[1].repeated
  /\ mergeOut.action = "DISCARD"
  /\ \E e \in RulesIn(ruleStore) :
       /\ e.rule.label = lastInstr[1].instr.label
       /\ Cardinality(e.rule.guidance) = 2

\* C7: Merge is non-destructive.  Across every merge, each rule of the file
\* is still there afterwards, in its section, under its label and with all
\* the guidance it had (AMEND rewrites it to a superset); no rule is deleted.
C7_MergeNonDestructive ==
  [][\A e \in RulesIn(ruleStore) :
       \E e2 \in RulesIn(ruleStore') :
         /\ e2.section = e.section
         /\ e2.rule.label = e.rule.label
         /\ e.rule.guidance \subseteq e2.rule.guidance]_vars

\* The unconditional 'SGA Expenses' guidance stands next to the sub-line
\* amendment, after an AMEND.
C7_Witness ==
  /\ mergeOut.action = "AMEND"
  /\ \E e \in RulesIn(ruleStore) :
       /\ e.rule.label = "SGA Expenses"
       /\ [cond |-> "always", dest |-> "Administrative Expenses"] \in e.rule.guidance
       /\ [cond |-> "sub-line present", dest |-> "Sales & Marketing Expenses"]
            \in e.rule.guidance
  /\ Cardinality(RulesIn(ruleStore)) >= 2

\* C8 (as claimed): after every merge call, DISCARD included, the output is
\* the complete file, which for DISCARD is the input file.
C8_OutputAlwaysFullStore ==
  [][mergeOut'.updated_markdown = <<ruleStore'>>]_vars

\* C8 (amended): for AMEND and APPEND the output is the complete file (every
\* rule the file had, with the instruction's guidance added) and the file is
\* overwritten with it; for DISCARD the output is null and the file is left
\* as it was.
C8_OutputFullUnlessDiscard ==
  [][/\ mergeOut'.action \in {"AMEND", "APPEND"} =>
          /\ mergeOut'.updated_markdown # Null
          /\ \A e \in RulesIn(ruleStore) :
               \E e2 \in RulesIn(mergeOut'.updated_markdown[1]) :
                 /\ e2.section = e.section
                 /\ e2.rule.label = e.rule.label
                 /\ e.rule.guidance \subseteq e2.rule.guidance
          /\ \E e2 \in RulesIn(mergeOut'.updated_markdown[1]) :
               Covers(e2.rule, lastInstr'[1].instr)
          /\ ruleStore' = mergeOut'.updated_markdown[1]
     /\ mergeOut'.action = "DISCARD" =>
          /\ mergeOut'.updated_markdown = Null
          /\ ruleStore' = ruleStore]_vars

\* A DISCARD returned null while the file holds rules in two sections.
C8_Witness ==
  /\ mergeOut.action = "DISCARD"
  /\ mergeOut.updated_markdown = Null
  /\ Len(ruleStore.sections) >= 2

\* C9: when the merge decides APPEND, the new rule is the last bullet of the
\* section of the instruction's destination field; that section is created,
\* at its place in the order of the file, when it was absent; every other
\* section and every earlier rule is unchanged; no section is empty.
C9_AppendToDestinationSection ==
  [][mergeOut'.action = "APPEND" =>
       LET instr == lastInstr'[1].instr
           dest == SectionOfField(instr.dest)
       IN /\ RulesOfSection(ruleStore', dest) =
               Append(RulesOfSection(ruleStore, dest), NewRule(instr))
          /\ SectionNames(ruleStore') = SectionNames(ruleStore) \cup {dest}
          /\ \A name \in SectionNames(ruleStore') \ {dest} :
               RulesOfSection(ruleStore', name) = RulesOfSection(ruleStore, name)
          /\ \A k \in 1..Len(ruleStore'.sections) :
               /\ Len(ruleStore'.sections[k].rules) >= 1
               /\ \A j \in 1..Len(ruleStore'.sections) :
                    j < k => SectionIndex(ruleStore'.sections[j].name)
                               < SectionIndex(ruleStore'.sections[k].name)]_vars

\* An APPEND whose destination field and mis-routed field lie in different
\* sections created the destination's section in front of an existing one.
C9_Witness ==
  /\ mergeOut.action = "APPEND"
  /\ SectionOfField(lastInstr[1].instr.from) # SectionOfField(lastInstr[1].instr.dest)
  /\ SectionOfField(lastInstr[1].instr.from) \notin SectionNames(ruleStore)
  /\ Len(ruleStore.sections) >= 2
  /\ ruleStore.sections[1].name = SectionOfField(lastInstr[1].instr.dest)

---------------------------------------------------------------------------
(* The Layer 2 classification of one income statement: the figures Layer 1 *)
(* extracted are drawn at the start, and the run populates the template.   *)

\* The figures of the source statement: those of the mock statement
\* (3,621,577.27, 432,658.88, 3,188,918.39), small figures one and two cents
\* apart, and absent figures.
SourceInputs ==
  [tr : {Null, Num(5), Num(362157727)},
   cogs : {Null, Num(2), Num(43265888)},
   cogsda : {Null, Num(1)},
   gp : {Null, Num(3), Num(4), Num(5), Num(318891839)},
   sm : {Null, Num(1)},
   adm : {Null, Num(2)},
   int : {Null, Num(1)},
   ibt : {Null, Num(10)},
   tax : {Null, Num(2)},
   ni : {Null, Num(8), Num(9)}]

\* One Layer 2 run on the source statement.
RunLayer2 ==
  /\ source # Null
  /\ layer2Out' \in {<<r>> : r \in Layer2Outputs(source[1])}
  /\ UNCHANGED <<source, restOfDerive>>

DeriveInit ==
  /\ source \in {<<s>> : s \in SourceInputs}
  /\ layer2Out = Null
  /\ IdleWizard
  /\ IdleMerge
  /\ IdleInduce
  /\ IdleGraph
  /\ IdleSteps
  /\ IdleReview
  /\ IdleQueue
  /\ IdleFlow

DeriveNext == RunLayer2

DeriveSpec == DeriveInit /\ [][DeriveNext]_vars

\* The figures available for a multi-path field in a finished run.
PathsOf(f, s, r) ==
  CASE f = GrossProfit -> GrossProfitPaths(s)
    [] f = NetIncome -> NetIncomePaths(s)
    [] f = EBIT -> EbitPaths(s.ibt, r.values[NetIncome], s.tax, s.int)

\* The figure upstream supplied for the field itself, when there is one.
Reported(f, s) ==
  CASE f = GrossProfit -> s.gp
    [] f = NetIncome -> s.ni
    [] f = EBIT -> Null

---------------------------------------------------------------------------
(* Backward induction on a margin/dollar pair, as the Layer 2 prompt states *)
(* it.  Dollars are cents, a percentage is counted in hundredths of a point *)
(* (88.05 % is 8805), and a computed figure is rounded to the nearest unit. *)

\* n / d rounded to the nearest integer, halves away from zero (d > 0)
RoundDiv(n, d) ==
  IF n >= 0 THEN (2 * n + d) \div (2 * d)
  ELSE -((2 * (-n) + d) \div (2 * d))

\* Variant: the implied dollar value cut off below the cent, not rounded.
DollarOf_Truncated(pct, base) ==
  pct * (base \div 10000) + ((pct * (base % 10000)) \div 10000)

\* "Gross Profit = Gross Profit Margin % x Total Revenue".  The product is
\* taken on the base split into its multiple of 10000 and the rest, which
\* is the same number and keeps every intermediate value within 32 bits
\* for a base of millions of dollars.
DollarOf(pct, base) ==
  pct * (base \div 10000) + RoundDiv(pct * (base % 10000), 10000)

\* dollar x 10000 - pct x base, on the same split of the base
ProductGap(dollar, pct, base) ==
  10000 * (dollar - pct * (base \div 10000)) - pct * (base % 10000)

\* Checks 13-17: "Margin % = dollar amount / Total Revenue x 100"
PercentOf(dollar, base) == RoundDiv(dollar * 10000, base)

\* Variant: a blank base counts as 0 and the implied dollar value is 0.
BackwardInduce_BlankBaseIsZero(p) ==
  IF p.base = Null
    THEN [dollar |-> IF p.pct # Null /\ p.dollar = Null THEN Num(0) ELSE p.dollar,
          pct |-> p.pct, flagged |-> {}]
  ELSE IF p.dollar = Null /\ p.pct # Null
    THEN [dollar |-> Num(DollarOf(p.pct[1], p.base[1])),
          pct |-> p.pct, flagged |-> {}]
  ELSE IF p.dollar # Null /\ p.pct = Null
    THEN [dollar |-> p.dollar,
          pct |-> Num(PercentOf(p.dollar[1], p.base[1])), flagged |-> {}]
  ELSE [dollar |-> p.dollar, pct |-> p.pct, flagged |-> {}]

\* One margin/dollar pair of the template with its base, Total Revenue.
\* Without a base nothing can be computed or verified and the pair stays as
\* the source reports it; a margin without its dollar amount gives the
\* dollar amount, a dollar amount without its margin gives the margin
\* (checks 13-17); when both are reported and inconsistent both are
\* populated as reported and both are flagged.
BackwardInduce(p) ==
  IF p.base = Null
    THEN [dollar |-> p.dollar, pct |-> p.pct, flagged |-> {}]
  ELSE IF p.dollar = Null /\ p.pct # Null
    THEN [dollar |-> Num(DollarOf(p.pct[1], p.base[1])),
          pct |-> p.pct, flagged |-> {}]
  ELSE IF p.dollar # Null /\ p.pct = Null
    THEN [dollar |-> p.dollar,
          pct |-> Num(PercentOf(p.dollar[1], p.base[1])), flagged |-> {}]
  ELSE IF p.dollar # Null /\ p.pct # Null
          /\ PercentOf(p.dollar[1], p.base[1]) # p.pct[1]
    THEN [dollar |-> p.dollar, pct |-> p.pct, flagged |-> {"dollar", "pct"}]
  ELSE [dollar |-> p.dollar, pct |-> p.pct, flagged |-> {}]

\* The pairs the source may report: a base of 100.00 or 200.50 or none, a
\* margin of 36 %, 88.05 %, 33.33 % or -7.1 % or none, and dollar amounts
\* that are or are not the margin's; and the pair of the mock income
\* statement (Total Revenue 3,621,577.27, margin 88.05 %) with no Gross
\* Profit reported.
MockRevenuePair ==
  [base |-> Num(362157727), pct |-> Num(8805), dollar |-> Null]

PairInputs ==
  [base : {Null, Num(10000), Num(20050)},
   pct : {Null, Num(3600), Num(8805), Num(3333), Num(-710)},
   dollar : {Null, Num(3600), Num(7218), Num(17654), Num(6683), Num(-712)}]
    \cup {MockRevenuePair}

\* The Layer 2 pass over the pair.
InduceMargin ==
  /\ pair # Null
  /\ induced = Null
  /\ induced' = <<BackwardInduce(pair[1])>>
  /\ UNCHANGED <<pair, restOfInduce>>

InduceInit ==
  /\ pair \in {<<p>> : p \in PairInputs}
  /\ induced = Null
  /\ IdleWizard
  /\ IdleMerge
  /\ IdleDerive
  /\ IdleGraph
  /\ IdleSteps
  /\ IdleReview
  /\ IdleQueue
  /\ IdleFlow

InduceNext == InduceMargin

InduceSpec == InduceInit /\ [][InduceNext]_vars

C21_InducedGrossProfitAsStated ==
  (induced # Null /\ pair[1] = MockRevenuePair) =>
    /\ induced[1].dollar # Null
    /\ Abs(induced[1].dollar[1] - 318899970) <= 5
    /\ Abs(ProductGap(induced[1].dollar[1], 8805, 362157727))
         <= 10000 * Tolerance

\* C21 (amended): on that pair backward induction gives 3,188,798.79, which
\* is 88.05 / 100 x 3,621,577.27 to the nearest cent (the exact product is
\* 3,188,798.786235); the margin is kept as reported and nothing is
\* flagged.  The figure differs from 3,188,999.7 by 200.91.
C21_InducedGrossProfit ==
  (induced # Null /\ pair[1] = MockRevenuePair) =>
    /\ induced[1].dollar = Num(318879879)
    /\ 2 * Abs(ProductGap(induced[1].dollar[1], 8805, 362157727)) <= 10000
    /\ 318899970 - induced[1].dollar[1] = 20091
    /\ induced[1].pct = Num(8805)
    /\ induced[1].flagged = {}

\* The Layer 2 pass has run over the mock pair and filled in a Gross Profit.
C21_Witness ==
  /\ pair # Null
  /\ pair[1] = MockRevenuePair
  /\ induced # Null
  /\ induced[1].dollar # Null

---------------------------------------------------------------------------
(* Blank figures in the Layer 2 pass *)

\* The figures a field's formula reads (checks 2, 4, 8, 9).
DependenciesOf(f, s) ==
  CASE f = GrossProfit -> {s.tr, s.cogs, s.cogsda}
    [] f = NetIncome -> {s.ibt, s.tax}
    [] f = EBIT -> {s.ibt, s.int}
    [] f = TotalOpEx -> {s.sm, s.adm}

---------------------------------------------------------------------------
(* The formula graph of the template: each derived field with the fields   *)
(* its vertical check reads.                                                *)

\* Variant: the backward induction Gross Profit = Gross Profit Margin % x
\* Total Revenue taken for a formula of Gross Profit, next to check 13.
IncomeStatementChecks_WithBackwardInduction ==
  (GrossProfit :> {TotalRevenue, COGS, CogsDA, "Gross Profit Margin %"})
  @@ ("Gross Profit Margin %" :> {GrossProfit, TotalRevenue})

\* Income statement, checks 1-17 (checks 9 and 10 both give EBIT).
IncomeStatementChecks ==
  (TotalRevenue :> {"Net Revenue"})
  @@ (GrossProfit :> {TotalRevenue, COGS, CogsDA})
  @@ ("Gross Profit Margin %" :> {GrossProfit, TotalRevenue})
  @@ (TotalOpEx :>
        {SalesMarketing, Administrative, "Compensation & Benefits Expense",
         "Research & Development", "Rent Expense", "Management Fee Expense",
         "Other Operating Expenses"})
  @@ ("Net Operating Income" :> {GrossProfit, TotalOpEx})
  @@ ("Total Expense/(Income)" :>
        {"Depreciation & Amortization", "Loss/(Gain) on Assets, Debt, FX",
         "Non-Operating Expenses",
         "Non-Operating Expenses - Depreciation & Amortization",
         InterestExpense, "Other Income", "Other Expenses"})
  @@ (IncomeBeforeTaxes :> {"Net Operating Income", "Total Expense/(Income)"})
  @@ (NetIncome :> {IncomeBeforeTaxes, Taxes})
  @@ (EBIT :> {IncomeBeforeTaxes, InterestExpense, NetIncome, Taxes})
  @@ ("EBITDA - Standard" :>
        {EBIT, CogsDA, "Depreciation & Amortization",
         "Non-Operating Expenses - Depreciation & Amortization"})
  @@ ("Adjusted EBITDA - Standard" :> {"EBITDA - Standard", "EBITDA Adjustments"})
  @@ ("EBITDA - Standard Margin %" :> {"EBITDA - Standard", TotalRevenue})
  @@ ("Adjusted EBITDA - Standard Margin %" :>
        {"Adjusted EBITDA - Standard", TotalRevenue})
  @@ ("Adjusted EBITDA - Reported Margin %" :>
        {"Adjusted EBITDA - Reported", TotalRevenue})
  @@ ("Covenant EBITDA Margin %" :> {"Covenant EBITDA", TotalRevenue})

\* Balance sheet, checks 1-11 (check 12 compares two totals).
BalanceSheetChecks ==
  ("Total Current Assets" :>
     {"Cash & Cash Equivalents", "Short Term Investments", "Accounts Receivable",
      "Inventory", "Prepaid Expenses", "Other Current Assets"})
  @@ ("Total Fixed Assets" :>
        {"Property, Plant & Equipment", "Accumulated Depreciation"})
  @@ ("Total Non-Current Assets" :>
        {"Total Fixed Assets", "Other Non-Current Assets", "Goodwill & Intangibles"})
  @@ (TotalAssets :> {"Total Current Assets", "Total Non-Current Assets"})
  @@ ("Short Term Debt" :>
        {"Accounts Payable", "Short Term Loans", "Short Term Capitalized Leases",
         "Short Term Mortgages"})
  @@ ("Total Current Liabilities" :>
        {"Short Term Debt", "Accrued Liabilities", "Other Current Liabilities"})
  @@ ("Long Term Debt" :>
        {"Long Term Loans", "Long Term Capitalized Leases", "Long Term Mortgages"})
  @@ ("Total Non-Current Liabilities" :>
        {"Long Term Debt", "Deferred Liabilities", "Other Non-Current Liabilities"})
  @@ (TotalLiabilities :>
        {"Total Current Liabilities", "Total Non-Current Liabilities"})
  @@ (TotalEquity :>
        {"Preferred Stock", "Common Stock", "Paid in Capital",
         "Other Comprehensive Income", "Retained Earnings", "Minority Interest"})
  @@ (TotalLE :> {TotalLiabilities, TotalEquity})

\* The template's graph.
TemplateFormulas == IncomeStatementChecks @@ BalanceSheetChecks

\* The derived fields a derived field's formula reads.
DerivedDeps(g, f) == g[f] \cap DOMAIN g

RECURSIVE KahnOrder(_, _)
\* The derived fields not yet in the order, taken one at a time among those
\* whose derived dependencies are all in it; CyclicFormula when fields are
\* left and none can be taken.
KahnOrder(g, order) ==
  LET done == {order[k] : k \in 1..Len(order)}
      left == DOMAIN g \ done
      ready == {f \in left : DerivedDeps(g, f) \subseteq done}
  IN IF left = {} THEN [ok |-> TRUE, order |-> order]
     ELSE IF ready = {} THEN [ok |-> FALSE, order |-> << >>]
     ELSE KahnOrder(g, Append(order, CHOOSE f \in ready : TRUE))

\* resolveOrder(): a topologically sorted sequence of the derived fields,
\* or the failure CyclicFormula (ok = FALSE) when there is none.
resolveOrder(g) == KahnOrder(g, << >>)

\* The graphs handed to the loader: the template's, and the template's with
\* one more dependency between two derived fields.
GraphInputs ==
  {TemplateFormulas}
  \cup { [TemplateFormulas EXCEPT ![f] = @ \cup {d}]
         : <<f, d>> \in (DOMAIN TemplateFormulas) \X (DOMAIN TemplateFormulas) }

\* The load of the formula graph.
LoadFormulas ==
  /\ formulas # Null
  /\ loaded = Null
  /\ loaded' = <<resolveOrder(formulas[1])>>
  /\ UNCHANGED <<formulas, restOfGraph>>

GraphInit ==
  /\ formulas \in {<<g>> : g \in GraphInputs}
  /\ loaded = Null
  /\ IdleWizard
  /\ IdleMerge
  /\ IdleDerive
  /\ IdleInduce
  /\ IdleSteps
  /\ IdleReview
  /\ IdleQueue
  /\ IdleFlow

GraphNext == LoadFormulas

GraphSpec == GraphInit /\ [][GraphNext]_vars

RECURSIVE ReachFrom(_, _, _)
\* The derived fields reached from the frontier along dependencies.
ReachFrom(g, frontier, seen) ==
  IF frontier \subseteq seen THEN seen
  ELSE ReachFrom(g, UNION {DerivedDeps(g, f) : f \in frontier} \ (seen \cup frontier),
                 seen \cup frontier)

\* Some derived field depends on itself, directly or through others.
Cyclic(g) == \E f \in DOMAIN g : f \in ReachFrom(g, DerivedDeps(g, f), {})

\* The position of a field in an order.
PositionIn(order, f) == CHOOSE k \in 1..Len(order) : order[k] = f

\* C13: the formula graph of the template's vertical checks is acyclic; the
\* loader answers a cyclic graph with CyclicFormula and any other graph with
\* an order that holds each derived field once, after every derived field
\* its formula reads.
C13_ResolveOrderTopological ==
  /\ ~Cyclic(TemplateFormulas)
  /\ loaded # Null =>
       LET g == formulas[1]
           r == loaded[1]
       IN /\ r.ok <=> ~Cyclic(g)
          /\ r.ok =>
               /\ Len(r.order) = Cardinality(DOMAIN g)
               /\ \A f \in DOMAIN g :
                    /\ \E k \in 1..Len(r.order) : r.order[k] = f
                    /\ \A d \in DerivedDeps(g, f) :
                         PositionIn(r.order, d) < PositionIn(r.order, f)

\* The template's own graph was loaded and ordered, Net Income before EBIT
\* and Total Liabilities before Total Liabilities and Equity.
C13_Witness ==
  /\ loaded # Null
  /\ formulas[1] = TemplateFormulas
  /\ loaded[1].ok
  /\ PositionIn(loaded[1].order, NetIncome) < PositionIn(loaded[1].order, EBIT)
  /\ PositionIn(loaded[1].order, TotalLiabilities)
       < PositionIn(loaded[1].order, TotalLE)

---------------------------------------------------------------------------
(* Step3Finalize.tsx: the balance check on the final values *)

\* finalValues.balance_sheet['Total Assets'] ?? 0
totalAssets(l2, corrs) ==
  NZ(Lookup(buildFinalValues(l2, corrs).balance_sheet, TotalAssets))

\* finalValues.balance_sheet['Total Liabilities and Equity'] ?? 0
totalLE(l2, corrs) ==
  NZ(Lookup(buildFinalValues(l2, corrs).balance_sheet, TotalLE))

balanceDiff(l2, corrs) == totalAssets(l2, corrs) - totalLE(l2, corrs)

\* Math.abs(a - b) < 0.01 on the doubles a/100 and b/100 of two amounts in
\* cents.  Away from one cent apart the doubles compare as the cents do.
\* One cent apart, the rounding of the operands decides: 0.01 - 0 is 0.01
\* and is not below 0.01, while 0.08 - 0.07 is 0.009999999999999995 and is
\* (the pairs listed are the ones among the amounts of this part).
BelowCentAsDoubles(a, b) ==
  IF Abs(a - b) # Tolerance THEN Abs(a - b) < Tolerance
  ELSE <<a, b>> \in {<<8, 7>>, <<7, 8>>}

\* Variant: a check with a missing total passes.
isBalanced_SkipMissing(l2, corrs) ==
  \/ Lookup(buildFinalValues(l2, corrs).balance_sheet, TotalAssets) = Null
  \/ Lookup(buildFinalValues(l2, corrs).balance_sheet, TotalLE) = Null
  \/ BelowCentAsDoubles(totalAssets(l2, corrs), totalLE(l2, corrs))

\* Math.abs(balanceDiff) < 0.01
isBalanced(l2, corrs) ==
  BelowCentAsDoubles(totalAssets(l2, corrs), totalLE(l2, corrs))

\* The balance sheets Step 3 is opened on: the mock statement's totals
\* (8,524,798.71 = 5,124,837.35 + 3,399,961.36), small balanced and
\* imbalanced ones, one of 0.01 against 0.00, and ones with a total that is
\* null or absent.
BalanceSheetInputs ==
  { [values |-> (TotalAssets :> Num(852479871)) @@ (TotalLiabilities :> Num(512483735))
                  @@ (TotalEquity :> Num(339996136)) @@ (TotalLE :> Num(852479871)),
     flaggedFields |-> {}],
    [values |-> (TotalAssets :> Num(7)) @@ (TotalLiabilities :> Num(4))
                  @@ (TotalEquity :> Num(3)) @@ (TotalLE :> Num(7)),
     flaggedFields |-> {}],
    [values |-> (TotalAssets :> Num(8)) @@ (TotalLiabilities :> Num(4))
                  @@ (TotalEquity :> Num(3)) @@ (TotalLE :> Num(7)),
     flaggedFields |-> {TotalAssets}],
    [values |-> (TotalAssets :> Num(1)) @@ (TotalLiabilities :> Num(0))
                  @@ (TotalEquity :> Num(0)) @@ (TotalLE :> Num(0)),
     flaggedFields |-> {TotalAssets}],
    [values |-> (TotalAssets :> Null) @@ (TotalLiabilities :> Num(4))
                  @@ (TotalEquity :> Num(3)) @@ (TotalLE :> Num(7)),
     flaggedFields |-> {}],
    [values |-> (TotalAssets :> Num(7)) @@ (TotalLiabilities :> Null)
                  @@ (TotalEquity :> Null),
     flaggedFields |-> {}],
    [values |-> (TotalAssets :> Null) @@ (TotalLE :> Null),
     flaggedFields |-> {}] }

\* The balance-sheet rows the analyst edits in this part.
BalanceEditFields == {TotalAssets, TotalEquity, TotalLE}

BalanceCorrValues == {7, 8}

\* Step 3 on a classified income statement, with or without a balance
\* sheet.
BalanceInit ==
  /\ \E is \in Layer2Outputs([tr |-> Num(5), cogs |-> Num(2), cogsda |-> Null,
                              gp |-> Num(3), sm |-> Null, adm |-> Null,
                              int |-> Null, ibt |-> Null, tax |-> Null,
                              ni |-> Null]) :
       \/ \E bs \in BalanceSheetInputs :
            layer2Results = [income_statement |-> is, balance_sheet |-> bs]
       \/ layer2Results = [income_statement |-> is]
  /\ corrections = << >>
  /\ now = 0
  /\ version = 0
  /\ lastOp = [op |-> "none"]
  /\ IdleMerge
  /\ IdleDerive
  /\ IdleInduce
  /\ IdleGraph
  /\ IdleSteps
  /\ IdleReview
  /\ IdleQueue
  /\ IdleFlow

BalanceNext ==
  \/ \E field \in BalanceEditFields, value \in BalanceCorrValues,
        reasoning \in ReasoningInputs, tag \in TagInputs, ts \in 0..MaxClock,
        base \in 0..MaxVersion :
       HandleSaveCorrection(field, value, reasoning, tag, ts, base)
  \/ \E field \in BalanceEditFields : HandleRemoveCorrection(field)

BalanceSpec == BalanceInit /\ [][BalanceNext]_vars

C15_BalancedIffAssetsEqualLiabilitiesPlusEquity ==
  LET bs == buildFinalValues(layer2Results, corrections).balance_sheet
  IN isBalanced(layer2Results, corrections)
       <=> BelowCentAsDoubles(NZ(Lookup(bs, TotalAssets)),
             NZ(Lookup(bs, TotalLiabilities)) + NZ(Lookup(bs, TotalEquity)))

\* C22: two values are consistent exactly when their absolute difference is
\* at most the tolerance; a balance difference of exactly 0.01 passes the
\* balance check and only a difference above 0.01 reads as imbalanced.
C22_DifferenceOfToleranceIsBalanced ==
  isBalanced(layer2Results, corrections)
    <=> Abs(balanceDiff(layer2Results, corrections)) <= Tolerance

---------------------------------------------------------------------------
(* Step1Upload.tsx and Step2Classify.tsx: extraction and classification *)

\* What the step handlers leave alone besides the wizard's results.
restOfSteps == <<now, version, lastOp, mergeVars, deriveVars, induceVars,
                 graphVars, reviewVars, queueVars>>

StatementTypes == {"income_statement", "balance_sheet"}

\* The sheets of the uploaded workbook.
WorkbookSheets == <<"Income Statement", "Balance Sheet">>

\* The message of the Error a failed API call throws.
ErrorMessages == {"Failed to fetch"}

\* Step 1 detectSheetType: both branches return 'income_statement'.
detectSheetTypeStep1(name) == "income_statement"

\* Step 2 detectSheetType: a name holding 'income' is an income statement,
\* any name with none of the keywords a balance sheet.
detectSheetType(name) ==
  IF name = "Income Statement" THEN "income_statement" ELSE "balance_sheet"

\* names.find(...) over a set of positions: the first name, or null
FirstSheet(names, S) ==
  IF S = {} THEN Null
  ELSE <<names[CHOOSE k \in S : \A j \in S : k <= j]>>

findIsBsSheets(names) ==
  LET pos == 1..Len(names)
      isSheet == FirstSheet(names,
                   {k \in pos : detectSheetType(names[k]) = "income_statement"})
      notIs == {k \in pos : isSheet = Null \/ names[k] # isSheet[1]}
      typed == FirstSheet(names,
                 {k \in notIs : detectSheetType(names[k]) = "balance_sheet"})
  IN [isSheet |-> isSheet,
      bsSheet |-> IF typed # Null THEN typed ELSE FirstSheet(names, notIs)]

\* What runLayer1 answers for a sheet.
Layer1Outputs(tab) == {[sheetName |-> tab]}

\* What runLayer2 answers for a statement.
Layer2Responses(stmt) ==
  IF stmt = "income_statement"
    THEN UNION {Layer2Outputs(s) : s \in {w \in WizardSources : w.gp = Num(3)}}
    ELSE {b \in WizardBalanceSheets : b.flaggedFields = {}}

\* A Layer2Result cut short.
PartialResult == [values |-> << >>, flaggedFields |-> {}]

\* tabStates[tab], whose fields are undefined while the tab has no entry
TabOf(ts, tab) ==
  IF tab \in DOMAIN ts THEN ts[tab]
  ELSE [sheetType |-> "undefined", status |-> "undefined", error |-> Null]

\* setTabStates((prev) => ({ ...prev, [tab]: patched }))
SetTab(ts, tab, patched) ==
  [t \in DOMAIN ts \cup {tab} |-> IF t = tab THEN patched ELSE ts[t]]

\* { ...f, [k]: v }
Put(f, k, v) == [x \in DOMAIN f \cup {k} |-> IF x = k THEN v ELSE f[x]]

\* the record without the key
Drop(f, k) == [x \in DOMAIN f \ {k} |-> f[x]]

SheetSet == {sheetNames[k] : k \in 1..Len(sheetNames)}

hasUpload == Len(sheetNames) > 0

activeTab ==
  IF activeSheetTab # "" THEN activeSheetTab
  ELSE IF hasUpload THEN sheetNames[1] ELSE ""

\* Approve requires one income statement and one balance sheet extracted.
canApprove ==
  /\ \E s \in SheetSet : /\ TabOf(tabStates, s).status = "done"
                         /\ TabOf(tabStates, s).sheetType = "income_statement"
  /\ \E s \in SheetSet : /\ TabOf(tabStates, s).status = "done"
                         /\ TabOf(tabStates, s).sheetType = "balance_sheet"

\* The sheet-type selector and the Run Extraction button are on screen
\* unless the active tab shows its extracted table.
RunPanelShown ==
  /\ currentStep = 1
  /\ hasUpload
  /\ ~(/\ TabOf(tabStates, activeTab).status = "done"
       /\ activeTab \in DOMAIN layer1Results)

statusOf(stmt) == IF stmt = "income_statement" THEN isStatus ELSE bsStatus

errorOf(stmt) == IF stmt = "income_statement" THEN isError ELSE bsError

hasBothResults ==
  /\ "income_statement" \in DOMAIN layer2Results
  /\ "balance_sheet" \in DOMAIN layer2Results

isClassifying == isStatus = "loading" \/ bsStatus = "loading"

hasAnyError == isStatus = "error" \/ bsStatus = "error"

\* The full-page loading view, which has no Retry button and never shows
\* the back confirmation.
LoadingView == isClassifying /\ ~hasBothResults

\* Variant: the Retry buttons are on screen under the loading view too.
RetryOffered_WhileLoading == currentStep = 2 /\ hasAnyError

\* The Retry buttons of the Step 2 action bar and template pane.
RetryOffered == currentStep = 2 /\ ~LoadingView /\ hasAnyError

SheetFor(stmt) ==
  IF stmt = "income_statement" THEN findIsBsSheets(sheetNames).isSheet
  ELSE findIsBsSheets(sheetNames).bsSheet

\* isSheet && layer1Results[isSheet]
HasSource(stmt) ==
  SheetFor(stmt) # Null /\ SheetFor(stmt)[1] \in DOMAIN layer1Results

\* The status runClassification gives a statement whose status it found st.
StatusAfterStart(stmt, st) ==
  IF HasSource(stmt) /\ st # "done" THEN "loading"
  ELSE IF ~HasSource(stmt) THEN "done"
  ELSE st

\* The .catch of a runLayer2 call writes a status and a message, and
\* nothing into newResults.
RejectedResults_Partial(newResults, stmt) == Put(newResults, stmt, PartialResult)

RejectedResults(newResults, stmt) == newResults

\* After Promise.allSettled: newResults is stored when it has more keys
\* than the layer2Results the call closed over.
FinishRun(base, newResults, stored) ==
  IF Cardinality(DOMAIN newResults) > Cardinality(DOMAIN base)
    THEN newResults
    ELSE stored

\* runClassification up to its await, for a component whose statuses are
\* isS and bsS.  With no call to wait for, Promise.allSettled([]) is
\* settled at once and newResults has no key more than layer2Results.
runClassification(isS, bsS) ==
  LET tasks == {stmt \in StatementTypes :
                  /\ HasSource(stmt)
                  /\ (IF stmt = "income_statement" THEN isS ELSE bsS) # "done"}
  IN /\ isError' = Null
     /\ bsError' = Null
     /\ status' = Null
     /\ isStatus' = StatusAfterStart("income_statement", isS)
     /\ bsStatus' = StatusAfterStart("balance_sheet", bsS)
     /\ IF tasks = {}
          THEN run' = Null /\ classifyingRef' = FALSE
          ELSE /\ run' = <<[base |-> layer2Results,
                            newResults |-> layer2Results,
                            pending |-> tasks]>>
               /\ classifyingRef' = TRUE

\* The mount effect of Step 2, on fresh component state.
MountStep2 ==
  IF hasBothResults
    THEN /\ isStatus' = "done"
         /\ bsStatus' = "done"
         /\ isError' = Null
         /\ bsError' = Null
         /\ status' = Null
         /\ run' = Null
         /\ classifyingRef' = FALSE
    ELSE runClassification("idle", "idle")

\* handleFileChange with an upload that succeeds.  The model follows one
\* runLayer1 call per sheet, so a workbook is uploaded while none is in
\* flight.
HandleFileChange ==
  /\ currentStep = 1
  /\ DOMAIN extractions = {}
  /\ sheetNames' = WorkbookSheets
  /\ activeSheetTab' = WorkbookSheets[1]
  /\ layer1Results' = << >>
  /\ tabStates' = [t \in {WorkbookSheets[k] : k \in 1..Len(WorkbookSheets)} |->
                     [sheetType |-> detectSheetTypeStep1(t),
                      status |-> "idle", error |-> Null]]
  /\ status' = <<[type |-> "success", message |-> "Uploaded"]>>
  /\ session' = [session EXCEPT !.uploadedFile = UploadedSession.uploadedFile,
                                !.sessionId = UploadedSession.sessionId,
                                !.workbookUrl = UploadedSession.workbookUrl]
  /\ UNCHANGED <<currentStep, extractions, isStatus, bsStatus, isError, bsError,
                 classifyingRef, run, failures, layer2Results, corrections,
                 step1Approved, step2Approved,
                 selectedCell, sidePanelOpen,
                 restOfSteps>>

handleReupload ==
  /\ currentStep = 1
  /\ hasUpload
  /\ DOMAIN extractions = {}
  /\ sheetNames' = << >>
  /\ activeSheetTab' = ""
  /\ layer1Results' = << >>
  /\ tabStates' = << >>
  /\ status' = Null
  /\ session' = [session EXCEPT !.uploadedFile = << >>, !.sessionId = << >>,
                                !.workbookUrl = << >>]
  /\ UNCHANGED <<currentStep, extractions, isStatus, bsStatus, isError, bsError,
                 classifyingRef, run, failures, layer2Results, corrections,
                 step1Approved, step2Approved,
                 selectedCell, sidePanelOpen,
                 restOfSteps>>

handleTabChange(tab) ==
  /\ currentStep = 1
  /\ tab \in SheetSet
  /\ activeSheetTab' = tab
  /\ LET doneTypes == {TabOf(tabStates, s).sheetType :
                         s \in {t \in SheetSet : TabOf(tabStates, t).status = "done"}}
         isOnly(t, other) == t \in doneTypes /\ other \notin doneTypes
     IN tabStates' =
          IF tab \in DOMAIN tabStates /\ tabStates[tab].status # "done"
            THEN IF isOnly("income_statement", "balance_sheet")
                   THEN SetTab(tabStates, tab,
                               [tabStates[tab] EXCEPT !.sheetType = "balance_sheet"])
                 ELSE IF isOnly("balance_sheet", "income_statement")
                   THEN SetTab(tabStates, tab,
                               [tabStates[tab] EXCEPT !.sheetType = "income_statement"])
                 ELSE tabStates
            ELSE tabStates
  /\ UNCHANGED <<currentStep, sheetNames, layer1Results, extractions, status,
                 isStatus, bsStatus, isError, bsError, classifyingRef, run,
                 failures, layer2Results, corrections, flowVars,
                 restOfSteps>>

\* The sheet-type selector of the active tab, disabled while it extracts.
setTabSheetType(sheetType) ==
  /\ RunPanelShown
  /\ TabOf(tabStates, activeTab).status # "extracting"
  /\ tabStates' = SetTab(tabStates, activeTab,
                         [TabOf(tabStates, activeTab) EXCEPT !.sheetType = sheetType])
  /\ UNCHANGED <<currentStep, sheetNames, activeSheetTab, layer1Results,
                 extractions, status, isStatus, bsStatus, isError, bsError,
                 classifyingRef, run, failures, layer2Results, corrections,
                 flowVars,
                 restOfSteps>>

\* handleRunExtraction up to its await, from the Run Extraction button or
\* the Retry link of the active tab.
handleRunExtraction ==
  /\ RunPanelShown
  /\ activeTab \in DOMAIN tabStates
  /\ tabStates[activeTab].status # "extracting"
  /\ activeTab \notin DOMAIN extractions
  /\ tabStates' = SetTab(tabStates, activeTab,
                         [tabStates[activeTab] EXCEPT !.status = "extracting",
                                                      !.error = Null])
  /\ status' = Null
  /\ extractions' = Put(extractions, activeTab, layer1Results)
  /\ UNCHANGED <<currentStep, sheetNames, activeSheetTab, layer1Results,
                 isStatus, bsStatus, isError, bsError, classifyingRef, run,
                 failures, layer2Results, corrections, flowVars,
                 restOfSteps>>

\* handleRunExtraction after its await, the call having answered.  The
\* component's setters do nothing once Step 1 is off screen.
Layer1Resolves(tab, result) ==
  /\ tab \in DOMAIN extractions
  /\ layer1Results' = Put(extractions[tab], tab, result)
  /\ tabStates' = IF currentStep = 1
                    THEN SetTab(tabStates, tab,
                                [TabOf(tabStates, tab) EXCEPT !.status = "done"])
                    ELSE tabStates
  /\ extractions' = Drop(extractions, tab)
  /\ UNCHANGED <<currentStep, sheetNames, activeSheetTab, status, isStatus,
                 bsStatus, isError, bsError, classifyingRef, run, failures,
                 layer2Results, corrections, flowVars,
                 restOfSteps>>

\* handleRunExtraction after its await, the call having thrown.
Layer1Rejects(tab, message) ==
  /\ tab \in DOMAIN extractions
  /\ tabStates' = IF currentStep = 1
                    THEN SetTab(tabStates, tab,
                                [TabOf(tabStates, tab) EXCEPT !.status = "error",
                                                             !.error = <<message>>])
                    ELSE tabStates
  /\ status' = IF currentStep = 1
                 THEN <<[type |-> "error", message |-> message]>>
                 ELSE status
  /\ extractions' = Drop(extractions, tab)
  /\ failures' = failures \cup {tab}
  /\ UNCHANGED <<currentStep, sheetNames, activeSheetTab, layer1Results,
                 isStatus, bsStatus, isError, bsError, classifyingRef, run,
                 layer2Results, corrections, flowVars,
                 restOfSteps>>

\* approveStep1, then Step 2 mounting in place of Step 1.
ApproveStep1 ==
  /\ currentStep = 1
  /\ canApprove
  /\ currentStep' = 2
  /\ step1Approved' = TRUE
  /\ tabStates' = << >>
  /\ MountStep2
  /\ UNCHANGED <<sheetNames, activeSheetTab, layer1Results, extractions,
                 failures, layer2Results, corrections, step2Approved,
                 selectedCell, sidePanelOpen, session,
                 restOfSteps>>

\* Variant: the guard is released only by a run that stored results.
AllSettled_GuardKeptOnFailure(stmt, newResults) ==
  LET pending == run[1].pending \ {stmt}
  IN IF pending = {}
       THEN /\ layer2Results' = FinishRun(run[1].base, newResults, layer2Results)
            /\ classifyingRef' =
                 ~(Cardinality(DOMAIN newResults)
                     > Cardinality(DOMAIN run[1].base))
            /\ run' = Null
       ELSE /\ run' = <<[run[1] EXCEPT !.newResults = newResults,
                                       !.pending = pending]>>
            /\ UNCHANGED <<layer2Results, classifyingRef>>

\* The run's call for stmt has settled leaving newResults; when it was the
\* last one, the code after Promise.allSettled runs.
AllSettled(stmt, newResults) ==
  LET pending == run[1].pending \ {stmt}
  IN IF pending = {}
       THEN /\ layer2Results' = FinishRun(run[1].base, newResults, layer2Results)
            /\ classifyingRef' = FALSE
            /\ run' = Null
       ELSE /\ run' = <<[run[1] EXCEPT !.newResults = newResults,
                                       !.pending = pending]>>
            /\ UNCHANGED <<layer2Results, classifyingRef>>

\* The .then of a runLayer2 call
Layer2Resolves(stmt, result) ==
  /\ run # Null
  /\ stmt \in run[1].pending
  /\ isStatus' = IF stmt = "income_statement" THEN "done" ELSE isStatus
  /\ bsStatus' = IF stmt = "balance_sheet" THEN "done" ELSE bsStatus
  /\ AllSettled(stmt, Put(run[1].newResults, stmt, result))
  /\ UNCHANGED <<currentStep, sheetNames, activeSheetTab, layer1Results,
                 tabStates, extractions, status, isError, bsError, failures,
                 corrections, flowVars,
                 restOfSteps>>

\* The .catch of a runLayer2 call
Layer2Rejects(stmt, message) ==
  /\ run # Null
  /\ stmt \in run[1].pending
  /\ isStatus' = IF stmt = "income_statement" THEN "error" ELSE isStatus
  /\ bsStatus' = IF stmt = "balance_sheet" THEN "error" ELSE bsStatus
  /\ isError' = IF stmt = "income_statement" THEN <<message>> ELSE isError
  /\ bsError' = IF stmt = "balance_sheet" THEN <<message>> ELSE bsError
  /\ failures' = failures \cup {stmt}
  /\ AllSettled(stmt, RejectedResults(run[1].newResults, stmt))
  /\ UNCHANGED <<currentStep, sheetNames, activeSheetTab, layer1Results,
                 tabStates, extractions, status, corrections, flowVars,
                 restOfSteps>>

\* handleRetry, from a Retry button: the guard is reset and a run is
\* started whatever classifyingRef held.
handleRetry ==
  /\ RetryOffered
  /\ runClassification(isStatus, bsStatus)
  /\ UNCHANGED <<currentStep, sheetNames, activeSheetTab, layer1Results,
                 tabStates, extractions, failures, layer2Results, corrections,
                 flowVars,
                 restOfSteps>>

\* The calls of a component that has left the screen: its setters do
\* nothing when they settle.
Orphaned(cs) == {[c EXCEPT !.mounted = FALSE] : c \in cs}

\* Variant: going back starts the wizard over (resetWizard).
BackToStep1_Reset ==
  /\ currentStep = 2
  /\ ~LoadingView
  /\ run = Null
  /\ currentStep' = 1
  /\ step1Approved' = FALSE
  /\ step2Approved' = FALSE
  /\ layer2Results' = << >>
  /\ corrections' = << >>
  /\ sidePanelOpen' = FALSE
  /\ selectedCell' = << >>
  /\ session' = DefaultSession
  /\ sheetNames' = << >>
  /\ activeSheetTab' = ""
  /\ layer1Results' = << >>
  /\ tabStates' = << >>
  /\ status' = Null
  /\ isStatus' = "idle"
  /\ bsStatus' = "idle"
  /\ isError' = Null
  /\ bsError' = Null
  /\ classifyingRef' = FALSE
  /\ approvingStep2' = FALSE
  /\ reasoningError' = FALSE
  /\ calls' = Orphaned(calls)
  /\ UNCHANGED <<extractions, run, failures, now, version, lastOp, mergeVars,
                 deriveVars, induceVars, graphVars, queueVars, server, saving,
                 finalized>>

\* backToStep1 from the back confirmation of the Step 2 action bar, then
\* Step 1 mounting in place of Step 2: the state of the Step 2 component
\* and of its side panel is gone, and the setters of the calls it has in
\* flight do nothing from then on.
BackToStep1 ==
  /\ currentStep = 2
  /\ ~LoadingView
  /\ run = Null
  /\ currentStep' = 1
  /\ step1Approved' = FALSE
  /\ layer2Results' = << >>
  /\ corrections' = << >>
  /\ step2Approved' = FALSE
  /\ sidePanelOpen' = FALSE
  /\ selectedCell' = << >>
  /\ tabStates' = << >>
  /\ status' = Null
  /\ isStatus' = "idle"
  /\ bsStatus' = "idle"
  /\ isError' = Null
  /\ bsError' = Null
  /\ classifyingRef' = FALSE
  /\ approvingStep2' = FALSE
  /\ reasoningError' = FALSE
  /\ calls' = Orphaned(calls)
  /\ UNCHANGED <<sheetNames, activeSheetTab, layer1Results, extractions, run,
                 failures, session, now, version, lastOp, mergeVars,
                 deriveVars, induceVars, graphVars, queueVars, server, saving,
                 finalized>>

\* Step 1 with the form filled in and no workbook uploaded.
ClassifyInit ==
  /\ IdleSteps
  /\ IdleWizard
  /\ IdleMerge
  /\ IdleDerive
  /\ IdleInduce
  /\ IdleGraph
  /\ IdleReview
  /\ IdleQueue
  /\ step1Approved = FALSE
  /\ step2Approved = FALSE
  /\ selectedCell = << >>
  /\ sidePanelOpen = FALSE
  /\ session = FormSession

ClassifyNext ==
  \/ HandleFileChange
  \/ handleReupload
  \/ \E tab \in {WorkbookSheets[k] : k \in 1..Len(WorkbookSheets)} :
       handleTabChange(tab)
  \/ \E sheetType \in StatementTypes : setTabSheetType(sheetType)
  \/ handleRunExtraction
  \/ \E tab \in DOMAIN extractions :
       \E result \in Layer1Outputs(tab) : Layer1Resolves(tab, result)
  \/ \E tab \in DOMAIN extractions, message \in ErrorMessages :
       Layer1Rejects(tab, message)
  \/ ApproveStep1
  \/ \E stmt \in StatementTypes :
       \E result \in Layer2Responses(stmt) : Layer2Resolves(stmt, result)
  \/ \E stmt \in StatementTypes, message \in ErrorMessages :
       Layer2Rejects(stmt, message)
  \/ handleRetry
  \/ BackToStep1

ClassifySpec == ClassifyInit /\ [][ClassifyNext]_vars

\* A runLayer2 call in flight is answered or fails.
Layer2Settles ==
  \E stmt \in StatementTypes :
    \/ \E result \in Layer2Responses(stmt) : Layer2Resolves(stmt, result)
    \/ \E message \in ErrorMessages : Layer2Rejects(stmt, message)

\* The same steps, every runLayer2 call settling in the end.
ClassifyLiveSpec == ClassifySpec /\ WF_vars(Layer2Settles)

\* A run is in progress only in Step 2, under the loading view.
RunShowsLoadingView == run # Null => currentStep = 2 /\ LoadingView

---------------------------------------------------------------------------
(* Claims about failed extraction and classification calls *)

\* the entry of a record under a key is the same in both
SameEntry(f, g, k) ==
  /\ (k \in DOMAIN f) = (k \in DOMAIN g)
  /\ k \in DOMAIN f => f[k] = g[k]

\* C16: when the runLayer2 call for a statement fails, the stored result
\* of that statement is what it was, its status is 'error' with a message,
\* the results stored or obtained for the other statement are kept, and
\* Retry is offered once the run is over; when the runLayer1 call for a
\* sheet fails, layer1Results is what it was, the tab's status is 'error'
\* with a message, and the tab can be run again.
C16_FailedCallLeavesResults ==
  [][ /\ \A stmt \in StatementTypes :
           (statusOf(stmt) = "loading" /\ statusOf(stmt)' = "error") =>
             /\ SameEntry(layer2Results, layer2Results', stmt)
             /\ errorOf(stmt)' # Null
             /\ \A o \in DOMAIN layer2Results :
                  SameEntry(layer2Results, layer2Results', o)
             /\ run' = Null =>
                  /\ \A o \in DOMAIN run[1].newResults :
                       /\ o \in DOMAIN layer2Results'
                       /\ layer2Results'[o] = run[1].newResults[o]
                  /\ RetryOffered'
      /\ \A tab \in DOMAIN tabStates :
           (/\ tabStates[tab].status = "extracting"
            /\ TabOf(tabStates', tab).status = "error") =>
             /\ layer1Results' = layer1Results
             /\ TabOf(tabStates', tab).error # Null
             /\ status' # Null /\ status'[1].type = "error"
             /\ tab \notin DOMAIN extractions'
    ]_vars

\* A classification call that failed has been retried with success: both
\* statements are done and stored.
C16_Witness ==
  /\ "balance_sheet" \in failures
  /\ currentStep = 2
  /\ isStatus = "done"
  /\ bsStatus = "done"
  /\ hasBothResults

\* C24: in Step 1 every sheet tab whose extraction status is 'done' has
\* its result in layer1Results, also when the extractions of two tabs are
\* started before either has finished and in whichever order they finish;
\* hence whenever the approval of Step 1 is enabled, layer1Results holds
\* the line items of a sheet extracted as an income statement and of a
\* sheet extracted as a balance sheet.
C24_DoneTabsHaveResults ==
  currentStep = 1 =>
    /\ \A tab \in SheetSet :
         TabOf(tabStates, tab).status = "done" => tab \in DOMAIN layer1Results
    /\ canApprove =>
         \A sheetType \in StatementTypes :
           \E tab \in SheetSet :
             /\ TabOf(tabStates, tab).sheetType = sheetType
             /\ tab \in DOMAIN layer1Results

\* C25: when a classification run has finished and neither statement is
\* in status 'error', layer2Results holds a result for income_statement
\* and for balance_sheet, so the approval of Step 2 is enabled: a statement
\* is never 'done' without a result, and Step 2 never rests with no error,
\* no request in flight and a result missing.
C25_FinishedRunHasBothResults ==
  currentStep = 2 =>
    /\ \A stmt \in StatementTypes :
         statusOf(stmt) = "done" => stmt \in DOMAIN layer2Results
    /\ (run = Null /\ ~hasAnyError) => hasBothResults

\* C26: the statement type under which Step 2 classifies a sheet's line
\* items is the sheet type the analyst selected for that sheet when
\* extracting it in Step 1, whatever the sheet is named: the runLayer2
\* calls started when Step 1 is approved go out, for each statement type,
\* on a sheet that was extracted as that type.
C26_ClassifiedAsExtracted ==
  [][(currentStep = 1 /\ currentStep' = 2 /\ run' # Null) =>
       \A stmt \in run'[1].pending :
         TabOf(tabStates, SheetFor(stmt)[1]).sheetType = stmt]_vars

C28_RunTerminates ==
  /\ \A stmt \in StatementTypes :
       (statusOf(stmt) = "loading") ~> (statusOf(stmt) \in {"done", "error"})
  /\ (run # Null) ~> (run = Null)
  /\ [](run = Null => ~classifyingRef)
  /\ [](isClassifying => run # Null)

\* A run is over with the income-statement call failed and the
\* balance-sheet call answered: nothing is loading, the guard is released
\* and Retry is offered.
C28_Witness ==
  /\ currentStep = 2
  /\ run = Null
  /\ isStatus = "error"
  /\ bsStatus = "done"
  /\ ~classifyingRef
  /\ RetryOffered

---------------------------------------------------------------------------
(* SidePanel.tsx, Step2Classify.tsx, Step3Finalize.tsx: saving corrections *)
(* and approving the review.  Text typed by the analyst is a sequence of   *)
(* characters.                                                             *)

\* What the review handlers leave alone.
restOfReview == <<layer2Results, now, version, mergeVars, deriveVars,
                  induceVars, graphVars, queueVars, sheetNames,
                  activeSheetTab, layer1Results, tabStates, extractions,
                  isStatus, bsStatus, isError, bsError, classifyingRef, run,
                  failures>>

Whitespace == {" ", "\n"}

RECURSIVE TrimStart(_)
TrimStart(t) ==
  IF t # << >> /\ Head(t) \in Whitespace THEN TrimStart(Tail(t)) ELSE t

RECURSIVE TrimEnd(_)
TrimEnd(t) ==
  IF t # << >> /\ t[Len(t)] \in Whitespace
    THEN TrimEnd(SubSeq(t, 1, Len(t) - 1))
    ELSE t

\* a trim that removes nothing
Trim_Nothing(t) == t

\* String.prototype.trim
Trim(t) == TrimEnd(TrimStart(t))

DigitChars == {"0", "1", "2", "3", "4", "5", "6", "7", "8", "9"}

DigitValue(c) ==
  CASE c = "0" -> 0 [] c = "1" -> 1 [] c = "2" -> 2 [] c = "3" -> 3
    [] c = "4" -> 4 [] c = "5" -> 5 [] c = "6" -> 6 [] c = "7" -> 7
    [] c = "8" -> 8 [] c = "9" -> 9

RECURSIVE DigitRun(_)
\* the longest run of digits the text starts with
DigitRun(t) ==
  IF t # << >> /\ Head(t) \in DigitChars
    THEN <<Head(t)>> \o DigitRun(Tail(t))
    ELSE << >>

RECURSIVE DigitsValue(_, _)
DigitsValue(ds, acc) ==
  IF ds = << >> THEN acc
  ELSE DigitsValue(Tail(ds), acc * 10 + DigitValue(Head(ds)))

NaN == Null

\* parseFloat, in cents: leading whitespace, a sign, digits, a decimal
\* point and digits; what follows is ignored; NaN when there is no digit.
\* The model's amounts have at most two decimals.
parseFloat(text) ==
  LET t == TrimStart(text)
      signed == t # << >> /\ Head(t) \in {"-", "+"}
      u == IF signed THEN Tail(t) ELSE t
      ip == DigitRun(u)
      rest == SubSeq(u, Len(ip) + 1, Len(u))
      fp == IF rest # << >> /\ Head(rest) = "." THEN DigitRun(Tail(rest))
            ELSE << >>
      cents == DigitsValue(ip, 0) * 100
               + (IF Len(fp) >= 1 THEN DigitValue(fp[1]) * 10 ELSE 0)
               + (IF Len(fp) >= 2 THEN DigitValue(fp[2]) ELSE 0)
  IN IF ip = << >> /\ fp = << >> THEN NaN
     ELSE Num(IF signed /\ Head(t) = "-" THEN 0 - cents ELSE cents)

\* The fields the analyst corrects in the review.
ReviewFields == {GrossProfit}

\* What the corrected-value input (type="number") can hold: nothing, which
\* is also what it holds after a non-numeric entry, or a number.
ValueTexts == {<< >>, <<"0", ".", "0", "4">>}

\* What the reasoning box can hold.
ReasoningTexts == {<< >>, <<" ">>, <<" ", "r">>}

\* CorrectionProcessItem of a correction
ProcessItem(c) ==
  [field_name |-> c.fieldName, corrected_value |-> c.correctedValue,
   analyst_reasoning |-> c.reasoning, tag |-> c.tag]

\* corrections.map((c) => ...)
ProcessItems(corrs) == [i \in 1..Len(corrs) |-> ProcessItem(corrs[i])]

SeqRange(q) == {q[i] : i \in 1..Len(q)}

\* A click on a row of the Step 2 template table
setSelectedCell(cell) ==
  /\ currentStep = 2
  /\ hasBothResults
  /\ selectedCell # <<cell>>
  /\ selectedCell' = <<cell>>
  /\ sidePanelOpen' = TRUE
  /\ reasoningError' = FALSE
  /\ UNCHANGED <<corrections, currentStep, status, approvingStep2, calls,
                 server, saving, finalized, lastOp, step1Approved,
                 step2Approved, session, restOfReview>>

\* setSidePanelOpen(false), from the panel's close button or Escape
setSidePanelOpen ==
  /\ currentStep = 2
  /\ sidePanelOpen
  /\ sidePanelOpen' = FALSE
  /\ selectedCell' = << >>
  /\ reasoningError' = FALSE
  /\ UNCHANGED <<corrections, currentStep, status, approvingStep2, calls,
                 server, saving, finalized, lastOp, step1Approved,
                 step2Approved, session, restOfReview>>

\* SidePanel handleSave, the panel showing fieldName, and, past its checks,
\* Step 2 handleSaveCorrection up to its await.
handleSave(fieldName, correctedValue, correctionReasoning, tag) ==
  /\ currentStep = 2
  /\ hasBothResults
  /\ sidePanelOpen
  /\ selectedCell = <<fieldName>>
  /\ lastOp' = [op |-> "handleSave", fieldName |-> fieldName,
                correctedValue |-> correctedValue,
                reasoning |-> correctionReasoning]
  /\ LET parsed == parseFloat(correctedValue)
     IN IF parsed = NaN
          THEN UNCHANGED <<corrections, calls, reasoningError>>
        ELSE IF Trim(correctionReasoning) = << >>
          THEN /\ reasoningError' = TRUE
               /\ UNCHANGED <<corrections, calls>>
        ELSE LET data == [fieldName |-> fieldName,
                          originalValue |->
                            NZ(CurrentValue(layer2Results, fieldName)),
                          correctedValue |-> parsed[1],
                          reasoning |-> correctionReasoning,
                          tag |-> tag]
             IN /\ reasoningError' = FALSE
                /\ corrections' =
                     addCorrection(corrections,
                                   [fieldName |-> data.fieldName,
                                    originalValue |-> data.originalValue,
                                    correctedValue |-> data.correctedValue,
                                    reasoning |-> data.reasoning,
                                    tag |-> data.tag,
                                    timestamp |-> now])
                /\ calls' = calls \cup {[kind |-> "saveCorrection",
                                         payload |-> data,
                                         mounted |-> TRUE]}
  /\ UNCHANGED <<currentStep, status, approvingStep2, server, saving,
                 finalized, flowVars,
                 restOfReview>>

\* handleSaveCorrection after its await, the call having answered
SaveCorrectionResolves(c) ==
  /\ c \in calls
  /\ c.kind = "saveCorrection"
  /\ calls' = calls \ {c}
  /\ server' = [server EXCEPT !.corrections = @ \cup {c.payload}]
  /\ status' = IF c.mounted
                 THEN <<[type |-> "success", message |-> "Correction saved",
                         fieldName |-> c.payload.fieldName]>>
                 ELSE status
  /\ lastOp' = [op |-> "saveCorrectionResolved", mounted |-> c.mounted]
  /\ UNCHANGED <<corrections, currentStep, approvingStep2, reasoningError,
                 saving, finalized, flowVars,
                 restOfReview>>

\* handleSaveCorrection after its await, the call having thrown: the catch
\* is empty and the success banner follows.
SaveCorrectionRejects(c) ==
  /\ c \in calls
  /\ c.kind = "saveCorrection"
  /\ calls' = calls \ {c}
  /\ status' = IF c.mounted
                 THEN <<[type |-> "success", message |-> "Correction saved",
                         fieldName |-> c.payload.fieldName]>>
                 ELSE status
  /\ lastOp' = [op |-> "saveCorrectionRejected", mounted |-> c.mounted]
  /\ UNCHANGED <<corrections, currentStep, approvingStep2, server,
                 reasoningError, saving, finalized, flowVars,
                 restOfReview>>

\* Step 2 handleRemoveCorrection, from the side panel of a corrected field
handleRemoveCorrection(fieldName) ==
  /\ currentStep = 2
  /\ sidePanelOpen
  /\ selectedCell = <<fieldName>>
  /\ FindIndex(corrections, fieldName) >= 1
  /\ corrections' = removeCorrection(corrections, fieldName)
  /\ status' = <<[type |-> "info", message |-> "Correction removed",
                  fieldName |-> fieldName]>>
  /\ lastOp' = [op |-> "handleRemoveCorrection", fieldName |-> fieldName]
  /\ UNCHANGED <<currentStep, approvingStep2, calls, server, reasoningError,
                 saving, finalized, flowVars,
                 restOfReview>>

\* approveStep2, then Step 3 mounting in place of Step 2
approveStep2 ==
  /\ currentStep' = 3
  /\ step2Approved' = TRUE
  /\ sidePanelOpen' = FALSE
  /\ selectedCell' = << >>
  /\ status' = Null
  /\ reasoningError' = FALSE
  /\ saving' = FALSE
  /\ finalized' = FALSE

\* handleApproveStep2 up to its await, or to its end when there is no
\* correction to process.
handleApproveStep2 ==
  /\ currentStep = 2
  /\ hasBothResults
  /\ ~approvingStep2
  /\ lastOp' = [op |-> "handleApproveStep2"]
  /\ IF Len(corrections) > 0
       THEN /\ approvingStep2' = TRUE
            /\ calls' = calls \cup {[kind |-> "processCorrections",
                                     payload |-> ProcessItems(corrections),
                                     mounted |-> TRUE]}
            /\ UNCHANGED <<currentStep, status, reasoningError, saving,
                           finalized, step2Approved, sidePanelOpen,
                           selectedCell>>
       ELSE /\ approveStep2
            /\ calls' = Orphaned(calls)
            /\ UNCHANGED approvingStep2
  /\ UNCHANGED <<corrections, server, step1Approved, session,
                 restOfReview>>

\* handleApproveStep2 after its await, the call having answered: the
\* backend has rewritten the corrections into rules and merged them.
ProcessCorrectionsResolves(c) ==
  /\ c \in calls
  /\ c.kind = "processCorrections"
  /\ server' = [server EXCEPT !.processed = @ \cup SeqRange(c.payload)]
  /\ approvingStep2' = (IF c.mounted THEN FALSE ELSE approvingStep2)
  /\ approveStep2
  /\ calls' = Orphaned(calls \ {c})
  /\ lastOp' = [op |-> "processCorrectionsResolved", mounted |-> c.mounted]
  /\ UNCHANGED <<corrections, step1Approved, session,
                 restOfReview>>

\* handleApproveStep2 after its await, the call having thrown: "Non-fatal
\* -- proceed regardless".
ProcessCorrectionsRejects(c) ==
  /\ c \in calls
  /\ c.kind = "processCorrections"
  /\ approvingStep2' = (IF c.mounted THEN FALSE ELSE approvingStep2)
  /\ approveStep2
  /\ calls' = Orphaned(calls \ {c})
  /\ lastOp' = [op |-> "processCorrectionsRejected", mounted |-> c.mounted]
  /\ UNCHANGED <<corrections, server, step1Approved, session,
                 restOfReview>>

\* Step 3 handleFinalize up to its await
handleFinalize ==
  /\ currentStep = 3
  /\ ~saving
  /\ ~finalized
  /\ saving' = TRUE
  /\ status' = Null
  /\ calls' = calls \cup {[kind |-> "finalizeOutput",
                           payload |-> corrections,
                           mounted |-> TRUE]}
  /\ lastOp' = [op |-> "handleFinalize"]
  /\ UNCHANGED <<corrections, currentStep, approvingStep2, server,
                 reasoningError, finalized, flowVars,
                 restOfReview>>

FinalizeResolves(c) ==
  /\ c \in calls
  /\ c.kind = "finalizeOutput"
  /\ calls' = calls \ {c}
  /\ server' = [server EXCEPT !.finalized = @ \cup {c.payload}]
  /\ IF c.mounted
       THEN /\ finalized' = TRUE
            /\ saving' = FALSE
            /\ status' = <<[type |-> "success", message |-> "Output finalized"]>>
       ELSE UNCHANGED <<finalized, saving, status>>
  /\ lastOp' = [op |-> "finalizeResolved", mounted |-> c.mounted]
  /\ UNCHANGED <<corrections, currentStep, approvingStep2, reasoningError,
                 flowVars,
                 restOfReview>>

FinalizeRejects(c, message) ==
  /\ c \in calls
  /\ c.kind = "finalizeOutput"
  /\ calls' = calls \ {c}
  /\ IF c.mounted
       THEN /\ saving' = FALSE
            /\ status' = <<[type |-> "error", message |-> message]>>
       ELSE UNCHANGED <<saving, status>>
  /\ lastOp' = [op |-> "finalizeRejected", mounted |-> c.mounted]
  /\ UNCHANGED <<corrections, currentStep, approvingStep2, server,
                 reasoningError, finalized, flowVars,
                 restOfReview>>

\* Variant: going back from Step 3 discards what Step 2 produced, as
\* going back from Step 2 does.
backToStep2_Discard ==
  /\ currentStep = 3
  /\ ~finalized
  /\ currentStep' = 2
  /\ step2Approved' = FALSE
  /\ layer2Results' = << >>
  /\ corrections' = << >>
  /\ isStatus' = "idle"
  /\ bsStatus' = "idle"
  /\ isError' = Null
  /\ bsError' = Null
  /\ status' = Null
  /\ approvingStep2' = FALSE
  /\ reasoningError' = FALSE
  /\ saving' = FALSE
  /\ finalized' = FALSE
  /\ calls' = Orphaned(calls)
  /\ lastOp' = [op |-> "backToStep2"]
  /\ UNCHANGED <<server, step1Approved, selectedCell, sidePanelOpen, session,
                 run, classifyingRef, now, version, mergeVars, deriveVars,
                 induceVars, graphVars, queueVars, sheetNames, activeSheetTab,
                 layer1Results, tabStates, extractions, failures>>

\* backToStep2 from the Back to Review button, which is disabled once the
\* output is finalized, then Step 2 mounting in place of Step 3 and
\* running its mount effect.
backToStep2 ==
  /\ currentStep = 3
  /\ ~finalized
  /\ currentStep' = 2
  /\ step2Approved' = FALSE
  /\ MountStep2
  /\ approvingStep2' = FALSE
  /\ reasoningError' = FALSE
  /\ saving' = FALSE
  /\ finalized' = FALSE
  /\ calls' = Orphaned(calls)
  /\ lastOp' = [op |-> "backToStep2"]
  /\ UNCHANGED <<corrections, server, step1Approved, selectedCell,
                 sidePanelOpen, session, layer2Results, now, version,
                 mergeVars, deriveVars, induceVars, graphVars, queueVars,
                 sheetNames, activeSheetTab, layer1Results, tabStates,
                 extractions, failures>>

\* Step 2 on screen with both statements classified.
ReviewInit ==
  /\ \E is \in Layer2Responses("income_statement"),
        bs \in Layer2Responses("balance_sheet") :
       layer2Results = [income_statement |-> is, balance_sheet |-> bs]
  /\ corrections = << >>
  /\ now = 0
  /\ version = 0
  /\ lastOp = [op |-> "none"]
  /\ currentStep = 2
  /\ sheetNames = WorkbookSheets
  /\ activeSheetTab = WorkbookSheets[1]
  /\ layer1Results = [t \in {WorkbookSheets[k] : k \in 1..Len(WorkbookSheets)} |->
                        [sheetName |-> t]]
  /\ tabStates = << >>
  /\ extractions = << >>
  /\ status = Null
  /\ isStatus = "done"
  /\ bsStatus = "done"
  /\ isError = Null
  /\ bsError = Null
  /\ classifyingRef = FALSE
  /\ run = Null
  /\ failures = {}
  /\ step1Approved = TRUE
  /\ step2Approved = FALSE
  /\ selectedCell = << >>
  /\ sidePanelOpen = FALSE
  /\ session = UploadedSession
  /\ IdleReview
  /\ IdleMerge
  /\ IdleDerive
  /\ IdleInduce
  /\ IdleGraph
  /\ IdleQueue

ReviewNext ==
  \/ \E cell \in ReviewFields : setSelectedCell(cell)
  \/ setSidePanelOpen
  \/ \E fieldName \in ReviewFields, correctedValue \in ValueTexts,
        correctionReasoning \in ReasoningTexts, tag \in TagInputs :
       handleSave(fieldName, correctedValue, correctionReasoning, tag)
  \/ \E c \in calls : SaveCorrectionResolves(c)
  \/ \E c \in calls : SaveCorrectionRejects(c)
  \/ \E fieldName \in ReviewFields : handleRemoveCorrection(fieldName)
  \/ handleApproveStep2
  \/ \E c \in calls : ProcessCorrectionsResolves(c)
  \/ \E c \in calls : ProcessCorrectionsRejects(c)
  \/ handleFinalize
  \/ \E c \in calls : FinalizeResolves(c)
  \/ \E c \in calls, message \in ErrorMessages : FinalizeRejects(c, message)
  \/ backToStep2

ReviewSpec == ReviewInit /\ [][ReviewNext]_vars

\* The review with the way back to Step 1 and what Step 2 does when it is
\* mounted without results: the wizard from Step 2 on.
FlowNext ==
  \/ ReviewNext
  \/ BackToStep1
  \/ \E stmt \in StatementTypes :
       \E result \in Layer2Responses(stmt) : Layer2Resolves(stmt, result)
  \/ \E stmt \in StatementTypes, message \in ErrorMessages :
       Layer2Rejects(stmt, message)
  \/ handleRetry

FlowSpec == ReviewInit /\ [][FlowNext]_vars

\* C23: in every state the wizard reaches, also when handleApproveStep2
\* finishes after the analyst has confirmed Back to Extraction,
\* step1Approved holds exactly when currentStep >= 2, step2Approved holds
\* exactly when currentStep = 3, and at currentStep = 3 layer2Results holds
\* the income_statement and the balance_sheet result.
C23_ApprovalFlagsFollowStep ==
  /\ step1Approved <=> currentStep >= 2
  /\ step2Approved <=> currentStep = 3
  /\ currentStep = 3 => hasBothResults

\* C30: backToStep1 sets currentStep to 1, clears layer2Results and
\* corrections, resets step1Approved and step2Approved and closes the side
\* panel, and leaves companyName, companyId, reportingPeriod, sessionId,
\* uploadedFile, sheetNames, workbookUrl, layer1Results and activeSheetTab
\* as they were; backToStep2 changes only currentStep and step2Approved,
\* so corrections and classification results survive a return from
\* Step 3.
C30_BackStepsFrame ==
  [][/\ (currentStep = 2 /\ currentStep' = 1) =>
          /\ layer2Results' = << >>
          /\ corrections' = << >>
          /\ step1Approved' = FALSE
          /\ step2Approved' = FALSE
          /\ sidePanelOpen' = FALSE
          /\ UNCHANGED <<session, sheetNames, layer1Results, activeSheetTab>>
     /\ (currentStep = 3 /\ currentStep' = 2) =>
          /\ step2Approved' = FALSE
          /\ UNCHANGED <<corrections, layer2Results, step1Approved,
                         selectedCell, sidePanelOpen, session, sheetNames,
                         layer1Results, activeSheetTab>>]_vars

\* Step 1 after a return from a review in which a correction had been
\* saved: the correction and the results are gone, the session, the
\* workbook's sheets and the extractions are still there.
C30_Witness ==
  /\ currentStep = 1
  /\ ~step1Approved
  /\ corrections = << >>
  /\ layer2Results = << >>
  /\ server.corrections # {}
  /\ session = UploadedSession
  /\ sheetNames = WorkbookSheets
  /\ DOMAIN layer1Results = {"Income Statement", "Balance Sheet"}

---------------------------------------------------------------------------
(* Claims about failed correction calls and about what is saved *)

\* C17 (as claimed): when the processCorrections call of the Step 2
\* approval fails, the wizard stays on Step 2 and shows an error; when a
\* saveCorrection call fails, the wizard does not report the correction as
\* saved.
C17_FailedCallIsSurfaced ==
  /\ lastOp.op = "processCorrectionsRejected" =>
       /\ currentStep = 2
       /\ status # Null
       /\ status[1].type = "error"
  /\ lastOp.op = "saveCorrectionRejected" /\ lastOp.mounted =>
       ~(status # Null /\ status[1].type = "success")

\* The reasonings of the corrections in the list, in the calls in flight
\* and in what the backend has received.
SavedReasonings ==
  {c.reasoning : c \in SeqRange(corrections)}
  \cup {c.payload.reasoning : c \in {x \in calls : x.kind = "saveCorrection"}}
  \cup UNION {{i.analyst_reasoning : i \in SeqRange(c.payload)}
                : c \in {x \in calls : x.kind = "processCorrections"}}
  \cup UNION {{k.reasoning : k \in SeqRange(c.payload)}
                : c \in {x \in calls : x.kind = "finalizeOutput"}}
  \cup {p.reasoning : p \in server.corrections}
  \cup {i.analyst_reasoning : i \in server.processed}
  \cup UNION {{k.reasoning : k \in SeqRange(f)} : f \in server.finalized}

\* C18: every correction in the list, in a request or at the backend has
\* a reasoning with a character that is not whitespace, and a handleSave
\* with a value that is no number or a reasoning that trims to nothing
\* leaves the list as it was and sends nothing.
C18_SavedCorrectionsHaveReasoning ==
  /\ [](\A r \in SavedReasonings :
          \E k \in 1..Len(r) : r[k] \notin Whitespace)
  /\ [][ (/\ lastOp'.op = "handleSave"
          /\ \/ \A k \in 1..Len(lastOp'.reasoning) :
                  lastOp'.reasoning[k] \in Whitespace
             \/ \A k \in 1..Len(lastOp'.correctedValue) :
                  lastOp'.correctedValue[k] \notin DigitChars)
         => corrections' = corrections /\ calls' = calls ]_vars

\* With a correction in the list, a save with a reasoning of one blank was
\* refused.
C18_Witness ==
  /\ lastOp.op = "handleSave"
  /\ lastOp.reasoning = <<" ">>
  /\ lastOp.correctedValue # << >>
  /\ reasoningError
  /\ Len(corrections) = 1
  /\ server.corrections # {}

\* C29: once a finalize request of the session has been sent and has
\* succeeded, the corrections and the final values of the session are not
\* changed any more and no further finalize request is sent, also when the
\* analyst clicks Back to Review while the request is in flight.
C29_FinalizedSessionIsFrozen ==
  [][server.finalized # {} =>
       /\ corrections' = corrections
       /\ layer2Results' = layer2Results
       /\ \A c \in calls' \ calls : c.kind # "finalizeOutput"]_vars

---------------------------------------------------------------------------
(* Step2Classify.tsx and Step3Finalize.tsx: the flags shown and counted *)

\* Step 2 buildTemplateRows: isFlagged = layer2?.flaggedFields.includes(field)
Step2IsFlagged(l2, corrs, field) == field \in FlaggedOf(l2, StatementOf(field))

\* Step 2 buildTemplateRows: isEdited = !!correction
Step2IsEdited(l2, corrs, field) == FindIndex(corrs, field) >= 1

\* Step 3: new Set(corrections.map((c) => c.fieldName))
correctedFieldNames(corrs) == {corrs[i].fieldName : i \in 1..Len(corrs)}

\* Step 3: the flagged fields of both statements
allFlaggedFields(l2) ==
  FlaggedOf(l2, "income_statement") \cup FlaggedOf(l2, "balance_sheet")

\* Step 3 'Flags Remaining'
flaggedRemaining(l2, corrs) ==
  Cardinality({f \in allFlaggedFields(l2) : f \notin correctedFieldNames(corrs)})

\* Step 3 buildRows: flagged = allFlaggedFields.has(field) && !corrected
Step3Flagged(l2, corrs, field) ==
  field \in allFlaggedFields(l2) /\ field \notin correctedFieldNames(corrs)

\* C19 (as claimed): a field that has a correction is shown as flagged
\* neither by the Step 2 template rows nor by the Step 3 rows, 'Flags
\* Remaining' counts the flagged fields that have no correction, and
\* removing a correction gives the field the flag of the classification
\* pass again.
C19_CorrectedFieldNotFlagged ==
  /\ [](/\ \A f \in EditFields :
             FindIndex(corrections, f) >= 1 =>
               /\ ~Step2IsFlagged(layer2Results, corrections, f)
               /\ ~Step3Flagged(layer2Results, corrections, f)
        /\ flaggedRemaining(layer2Results, corrections)
             = Cardinality({f \in allFlaggedFields(layer2Results) :
                              FindIndex(corrections, f) = 0}))
  /\ [][ \A f \in EditFields :
           (FindIndex(corrections, f) >= 1 /\ FindIndex(corrections', f) = 0) =>
             /\ Step2IsFlagged(layer2Results', corrections', f)
                  = (f \in allFlaggedFields(layer2Results))
             /\ Step3Flagged(layer2Results', corrections', f)
                  = (f \in allFlaggedFields(layer2Results)) ]_vars

\* The part of C19 about Step 3 alone, which holds.
Step3FlagsFollowCorrections ==
  /\ \A f \in EditFields :
       FindIndex(corrections, f) >= 1 =>
         ~Step3Flagged(layer2Results, corrections, f)
  /\ flaggedRemaining(layer2Results, corrections)
       = Cardinality({f \in allFlaggedFields(layer2Results) :
                        FindIndex(corrections, f) = 0})

---------------------------------------------------------------------------
(* useWizardState.ts: addCorrection and removeCorrection as queued updates *)

restOfQueue == <<layer2Results, now, version, lastOp, mergeVars, deriveVars,
                 induceVars, graphVars, stepVars, reviewVars, flowVars>>

\* The calls followed: at most MaxSubmitted of them.
MaxSubmitted == 3

\* The corrections handed to addCorrection.
QueueCorrections ==
  [fieldName : {GrossProfit, TotalAssets}, originalValue : {0},
   correctedValue : {1, 4}, reasoning : {"r"}, tag : TagInputs,
   timestamp : {0}]

\* An updater computed from the corrections its caller saw
ApplyUpdater_FromClosure(u, s) ==
  IF u.op = "add" THEN addCorrection(u.closure, u.arg)
  ELSE removeCorrection(u.closure, u.arg)

\* setState((s) => ...): the updater is run on the state it is handed
ApplyUpdater(u, s) ==
  IF u.op = "add" THEN addCorrection(s, u.arg)
  ELSE removeCorrection(s, u.arg)

RECURSIVE ApplyQueue(_, _)
\* React runs the queued updaters in the order of their setState calls,
\* each on the result of the one before.
ApplyQueue(q, s) ==
  IF q = << >> THEN s
  ELSE ApplyQueue(Tail(q), ApplyUpdater(Head(q), s))

\* addCorrection(correction): the updater is queued
CallAddCorrection(correction) ==
  /\ Len(submitted) < MaxSubmitted
  /\ updateQueue' = Append(updateQueue, [op |-> "add", arg |-> correction,
                                         closure |-> corrections])
  /\ submitted' = Append(submitted, [op |-> "add", arg |-> correction,
                                     pending |-> Len(updateQueue)])
  /\ UNCHANGED <<corrections, restOfQueue>>

\* removeCorrection(fieldName): the updater is queued
CallRemoveCorrection(fieldName) ==
  /\ Len(submitted) < MaxSubmitted
  /\ updateQueue' = Append(updateQueue, [op |-> "remove", arg |-> fieldName,
                                         closure |-> corrections])
  /\ submitted' = Append(submitted, [op |-> "remove", arg |-> fieldName,
                                     pending |-> Len(updateQueue)])
  /\ UNCHANGED <<corrections, restOfQueue>>

\* React renders: the queue is applied to the state
FlushUpdates ==
  /\ updateQueue # << >>
  /\ corrections' = ApplyQueue(updateQueue, corrections)
  /\ updateQueue' = << >>
  /\ UNCHANGED <<submitted, restOfQueue>>

QueueInit ==
  /\ IdleWizard
  /\ IdleQueue
  /\ IdleFlow
  /\ IdleMerge
  /\ IdleDerive
  /\ IdleInduce
  /\ IdleGraph
  /\ IdleSteps
  /\ IdleReview

QueueNext ==
  \/ \E correction \in QueueCorrections : CallAddCorrection(correction)
  \/ \E fieldName \in {GrossProfit, TotalAssets} : CallRemoveCorrection(fieldName)
  \/ FlushUpdates

QueueSpec == QueueInit /\ [][QueueNext]_vars

---------------------------------------------------------------------------
(* Claims about the order of correction updates *)

RECURSIVE Replay(_, _, _)
\* the calls from the i-th on, made one after the other on corrs
Replay(calls_, i, corrs) ==
  IF i > Len(calls_) THEN corrs
  ELSE Replay(calls_, i + 1,
              IF calls_[i].op = "add" THEN addCorrection(corrs, calls_[i].arg)
              ELSE removeCorrection(corrs, calls_[i].arg))

\* the field a call is about
FieldOfCall(call) == IF call.op = "add" THEN call.arg.fieldName ELSE call.arg

\* the position of the last call about the field, 0 when there is none
LastCallOn(field) ==
  IF \E i \in 1..Len(submitted) : FieldOfCall(submitted[i]) = field
    THEN CHOOSE i \in 1..Len(submitted) :
           /\ FieldOfCall(submitted[i]) = field
           /\ \A j \in (i + 1)..Len(submitted) : FieldOfCall(submitted[j]) # field
    ELSE 0

\* C20: once the queued updates have been applied, the corrections list is
\* what the calls give when made one after the other in the order they
\* were submitted, and no call is lost: a field whose last call was an
\* addCorrection has that correction, a field whose last call was a
\* removeCorrection has none.
C20_UpdatesAppliedInSubmissionOrder ==
  updateQueue = << >> =>
    /\ corrections = Replay(submitted, 1, << >>)
    /\ \A field \in {GrossProfit, TotalAssets} :
         LET last == LastCallOn(field)
         IN IF last = 0 THEN FindIndex(corrections, field) = 0
            ELSE IF submitted[last].op = "add"
              THEN /\ FindIndex(corrections, field) >= 1
                   /\ corrections[FindIndex(corrections, field)]
                        = submitted[last].arg
            ELSE FindIndex(corrections, field) = 0

\* Two corrections for different fields were submitted before either was
\* applied, and both are in the list.
C20_Witness ==
  /\ updateQueue = << >>
  /\ Len(submitted) >= 2
  /\ submitted[1].op = "add"
  /\ submitted[2].op = "add"
  /\ submitted[2].pending = 1
  /\ submitted[1].arg.fieldName # submitted[2].arg.fieldName
  /\ Len(corrections) = 2

====
